---- MODULE Spec2Model ----
(***************************************************************************)
(* Model of the solver orchestrators of AMfe (src/amfe/solver.py):         *)
(*   NonlinearDynamicsSolver.solve   (specification Spec)                  *)
(*   LinearDynamicsSolver.solve      (specification SpecLin)               *)
(*   NonlinearStaticsSolver.solve    (specification SpecStat)              *)
(*                                                                         *)
(* Numbers.  Times are integers counted in ticks; the tolerance eps of the *)
(* output test (1E-13 in the source) is one tick and the step widths are   *)
(* at least two ticks.  Norms and tolerances are integers too.  The state  *)
(* vectors have one degree of freedom.  The scheme hooks are those of the  *)
(* generalized-alpha scheme (use_v = FALSE) and of the JWH-alpha scheme    *)
(* (use_v = TRUE) at rho_inf = 1, where both give gamma = 1/2, beta = 1/4  *)
(* and alpha_m = alpha_f = 1/2; velocity and acceleration are carried in   *)
(* the scaled units dq*dt/2, v*dt/2 and ddq*dt^2/4, which makes every      *)
(* coefficient of predict and correct an integer.  The mechanical system   *)
(* is arbitrary: the norms of the residual and of the external force that  *)
(* newton_raphson returns, and the correction the linear solver returns,   *)
(* are drawn from small sets.                                              *)
(***************************************************************************)
EXTENDS Integers, Sequences, FiniteSets, TLC

\* ---------------------------------------------------------------- bounds
TEnd == 9              \* end time t_end of the dynamics solves, in ticks
MaxRollbacks == 2      \* rolled-back steps per solve that the model follows
MaxLoadSteps == 3      \* largest exactly representable no_of_load_steps
MaxSolves == 2         \* solves called one after another on one system
MaxCalls == 30         \* calls of one method that the model counts

\* ------------------------------------------------------ program constants
eps == 1               \* solver.py:483, 685: eps = 1E-13, one tick here
T0 == 0                \* solver.py:365, 604: t0 = 0.0

\* ------------------------------------------------------------ input sets
DtChoices       == {2, 3, 4}
DtOutputChoices == {2, 4}
NIterMaxChoices == {0, 1}
RTolChoices     == {1}
ATolChoices     == {1}
FExtNorms       == {0, 2}      \* values of norm_of_vector(f_ext)
ResNorms        == {2, 3, 4}   \* values of norm_of_vector(res)
DeltaQ          == {1}         \* values of -linsolver.solve(res)
Q0Choices       == {0}         \* initial_conditions['q0']
DQ0Choices      == {1}         \* initial_conditions['dq0']
WriteIterChoices  == {FALSE}
TrackNiterChoices == {FALSE}

VARIABLES
    \* options of the solver object
    dt, dt_output, t_end, rtol, atol, n_iter_max, conv_abort, write_iter,
    track_niter, use_v, has_factorize, q0, dq0,
    no_of_load_steps, n_max_iter, smplfd_nwtn_itr, save,
    \* local variables of the dynamics solves
    pc, t, q, dq, v, ddq, f_ext, abs_f_ext, res_abs, n_iter, time_index,
    q_old, dq_old, v_old, ddq_old, f_ext_old, t_old,
    \* local variables of the statics solve
    u, u_output, load_step, abs_res, stale,
    \* mechanical system and solver object
    history, iteration_info,
    \* linear solver adapter: installed matrix and call counts
    lin_A, calls,
    \* observers: the accepted states in order, the external-force norms seen
    \* at the predictor evaluations, the number of rollbacks, what ended the
    \* last step, and whether the solve was aborted
    accepted, seen_f_ext, rollbacks, last_step, aborted,
    \* the solver class: the orchestrator, the parameter list of its
    \* set_parameters, its rho_inf and the scheme parameters it has set
    solver, signature, rho_inf, params,
    \* the keyword options handed to the constructor
    given,
    \* the mechanical system: "any", or the coefficients of a linear one; and
    \* the number of solves started on it
    system, solves,
    \* a constraint object, the last call of one of its methods and what
    \* that call returned or raised
    constraint, call, returned,
    \* NewmarkIntegrator: its step width, whether it holds a mechanical
    \* system, the time_range handed to integrate_nonlinear_system, the two
    \* flags of that function, and the vectors recorded with what each holds
    \* now
    delta_t, has_mechanical_system, time_range_arg, write_flag,
    no_newton_convergence_flag, recorded

options == <<dt, dt_output, t_end, rtol, atol, n_iter_max, conv_abort,
             write_iter, track_niter, use_v, has_factorize, q0, dq0,
             no_of_load_steps, n_max_iter, smplfd_nwtn_itr, save>>
statics == <<u, u_output, load_step, abs_res, stale>>
constraints == <<constraint, call, returned>>
newmark == <<delta_t, has_mechanical_system, time_range_arg, write_flag,
             no_newton_convergence_flag, recorded>>
session == <<solver, signature, rho_inf, given, system, solves, constraints,
             newmark>>
working == <<t, q, dq, v, ddq, f_ext>>
saved   == <<q_old, dq_old, v_old, ddq_old, f_ext_old, t_old>>
vars    == <<options, statics, pc, working, abs_f_ext, res_abs, n_iter, time_index,
             saved, history, iteration_info, lin_A, calls, accepted,
             seen_f_ext, rollbacks, last_step, aborted, session, params>>

Max(a, b) == IF a >= b THEN a ELSE b

\* np.arange(start, stop, step) in exact arithmetic: start + k*step < stop
ArangeLen(start, stop, step) ==
    IF stop <= start THEN 0 ELSE ((stop - start) + step - 1) \div step

time_range == [k \in 1..ArangeLen(T0, t_end, dt_output) |->
                  T0 + (k - 1) * dt_output]

NoCalls == [predict |-> 0, newton_raphson |-> 0, correct |-> 0,
            set_A |-> 0, solve |-> 0, factorize |-> 0, clear |-> 0,
            K_eff |-> 0, clear_timesteps |-> 0, set_parameters |-> 0]

\* the calls of each name are counted up to MaxCalls
Called(names) == [c \in DOMAIN calls |->
                    IF c \in names /\ calls[c] < MaxCalls
                    THEN calls[c] + 1
                    ELSE calls[c]]

\* MechanicalSystem.write_timestep(t, u).  A recorded time is the pair
\* (t, it) standing for t + dt/1000000*it; it = 0 unless write_iter wrote it.
write_timestep(h, time, it, x) == Append(h, [t |-> time, it |-> it, u |-> x])

\* mutant of Tolerance: the absolute tolerance is subtracted
ToleranceMinusAtol == rtol * abs_f_ext - atol

\* the convergence criterion of the Newton loop
Tolerance == rtol * abs_f_ext + atol

\* ------------------------------------------------------ rational numbers
\* a rational is <<numerator, denominator>> in lowest terms, denominator > 0
RECURSIVE Gcd(_, _)
Gcd(a, b) == IF b = 0 THEN a ELSE Gcd(b, a % b)

Abs(a) == IF a < 0 THEN -a ELSE a

Rat(n, d) ==
    LET g == Gcd(Abs(n), Abs(d))
        sgn == IF d < 0 THEN -1 ELSE 1
    IN <<sgn * (n \div g), sgn * (d \div g)>>

R(n) == <<n, 1>>
Half == <<1, 2>>
Quarter == <<1, 4>>
RAdd(x, y) == Rat(x[1] * y[2] + y[1] * x[2], x[2] * y[2])
RSub(x, y) == Rat(x[1] * y[2] - y[1] * x[2], x[2] * y[2])
RMul(x, y) == Rat(x[1] * y[1], x[2] * y[2])
RDiv(x, y) == Rat(x[1] * y[2], x[2] * y[1])

\* --------------------------------------------------------- solver classes
\* the parameter list of set_parameters: the names it takes and whether it
\* takes any keyword (**options)
KeywordOptions == [names |-> {}, var_kw |-> TRUE]
OptionsOnly    == [names |-> {"options"}, var_kw |-> FALSE]
DtAndOptions   == [names |-> {"dt", "options"}, var_kw |-> FALSE]

\* mutant of set_parameters: the coefficients of the HHT-alpha method in
\* place of those of the generalized-alpha method
set_parameters_hht(rho) ==
    LET alpha_m == R(0)
        alpha_f == RDiv(RSub(R(1), rho), RAdd(R(1), rho))
        s == RAdd(RSub(R(1), alpha_m), alpha_f)
    IN IF use_v
       THEN [alpha_m |-> alpha_m,
             alpha_f |-> alpha_f,
             gamma   |-> RSub(RAdd(Half, alpha_m), alpha_f)]
       ELSE [alpha_m |-> alpha_m,
             alpha_f |-> alpha_f,
             beta    |-> RMul(Quarter, RMul(s, s)),
             gamma   |-> RAdd(RSub(Half, alpha_m), alpha_f)]

\* set_parameters of the generalized-alpha classes (use_v = FALSE) and of
\* the JWH-alpha classes (use_v = TRUE)
set_parameters(rho) ==
    IF use_v
    THEN LET alpha_m == RDiv(RSub(R(3), rho), RMul(R(2), RAdd(R(1), rho)))
             alpha_f == RDiv(R(1), RAdd(R(1), rho))
         IN [alpha_m |-> alpha_m,
             alpha_f |-> alpha_f,
             gamma   |-> RSub(RAdd(Half, alpha_m), alpha_f)]
    ELSE LET alpha_m == RDiv(RSub(RMul(R(2), rho), R(1)), RAdd(rho, R(1)))
             alpha_f == RDiv(rho, RAdd(rho, R(1)))
             s == RAdd(RSub(R(1), alpha_m), alpha_f)
         IN [alpha_m |-> alpha_m,
             alpha_f |-> alpha_f,
             beta    |-> RMul(Quarter, RMul(s, s)),
             gamma   |-> RAdd(RSub(Half, alpha_m), alpha_f)]

\* the scheme parameters of a solver before set_parameters has run
NoParameters == [alpha_m |-> "unset", alpha_f |-> "unset"]

\* the number of degrees of freedom of the mechanical system
no_of_dofs == 1

\* the length of an initial condition that the options do not hold
Absent == -1

\* constructor options that are valid: dt given, q0 and dq0 of length
\* no_of_dofs
ValidOptions == [dt |-> TRUE, q0 |-> no_of_dofs, dq0 |-> no_of_dofs]

\* self.options: the keys of the keyword options given
OptionKeys ==
    (IF given.dt THEN {"dt"} ELSE {}) \cup
    (IF given.q0 # Absent \/ given.dq0 # Absent
     THEN {"initial_conditions"} ELSE {})

\* whether the call set_parameters(**self.options) binds its arguments
Binds ==
    /\ signature.var_kw \/ OptionKeys \subseteq signature.names
    /\ signature.names \subseteq OptionKeys

\* ------------------------------------------------------ mechanical system
\* an arbitrary system, whose evaluations are drawn from the input sets
AnySystem == [kind |-> "any"]

\* D_constr of a mechanical system that has no damping operator
None == -1

\* a linear system without damping (D_constr is None) under a constant
\* force F: f_int = K*q.  For the dynamics solves the record holds M for
\* 2*M/dt^2 and K for K/2, which is what the schemes at rho_inf = 1 multiply
\* ddq and q by in the scaled units; for the statics solve it holds K itself
\* and F for the force of one load step.
LinearSystem(m, k, f) ==
    [kind |-> "linear", M |-> m, K |-> k, F |-> f, D |-> None]

\* a linear system with the damping operator d; the record holds D for
\* D/dt, which is what the schemes at rho_inf = 1 multiply dq (or v, with
\* use_v) by in the scaled units
DampedSystem(m, d, k, f) ==
    [kind |-> "linear", M |-> m, K |-> k, F |-> f, D |-> d]

\* a solver of the given orchestrator whose scheme takes the options as
\* keywords, with rho_inf = 1 and valid options, on an arbitrary system
Conforming(kind) ==
    /\ solver = kind
    /\ signature = KeywordOptions
    /\ rho_inf = R(1)
    /\ given = ValidOptions
    /\ system = AnySystem

\* --------------------------------------------------------------- scheme
\* predict of GeneralizedAlphaNonlinearDynamicsSolver (use_v = FALSE) and of
\* JWHAlphaNonlinearDynamicsSolver (use_v = TRUE), in the scaled units
predict(s) ==
    IF use_v
    THEN [q   |-> s.q + 2 * s.v + s.ddq,
          dq  |-> s.dq + 2 * (s.v - s.dq) + s.ddq,
          v   |-> s.v + s.ddq,
          ddq |-> 0]
    ELSE [q   |-> s.q + 2 * s.dq + s.ddq,
          dq  |-> s.dq + s.ddq,
          v   |-> s.v,
          ddq |-> 0]

\* correct of the two schemes, in the scaled units
correct(s, delta_q) ==
    [q   |-> s.q + delta_q,
     dq  |-> s.dq + delta_q,
     v   |-> IF use_v THEN s.v + delta_q ELSE s.v,
     ddq |-> s.ddq + delta_q]

State == [q |-> q, dq |-> dq, v |-> v, ddq |-> ddq]

\* the variables saved at the start of the time step
Saved == [q |-> q_old, dq |-> dq_old, v |-> v_old, ddq |-> ddq_old]

\* res of newton_raphson for a linear system at the state s of the step
\* that started from the state o: f_ext_f - M*ddq_m - K*q_f when D_constr
\* is None, else f_ext_f - M*ddq_m - D*dq_f - K*q_f (D*v_f with use_v)
residual(s, o) ==
    IF system.D = None
    THEN system.F - system.M * (s.ddq + o.ddq) - system.K * (s.q + o.q)
    ELSE system.F - system.M * (s.ddq + o.ddq)
                  - system.D * (IF use_v THEN s.v + o.v ELSE s.dq + o.dq)
                  - system.K * (s.q + o.q)

\* Jac of newton_raphson for a linear system
Jac ==
    IF system.D = None
    THEN -(system.M + system.K)
    ELSE -(system.M + system.D + system.K)

\* the values norm_of_vector(f_ext) can take after newton_raphson
f_ext_norms ==
    IF system.kind = "any" THEN FExtNorms ELSE {Abs(system.F)}

\* the values norm_of_vector(res) can take after newton_raphson at s
res_norms(s, o) ==
    IF system.kind = "any" THEN ResNorms ELSE {Abs(residual(s, o))}

\* the values of -linsolver.solve(res) with A = Jac at s
linsolver_solve(s, o) ==
    IF system.kind = "any"
    THEN DeltaQ
    ELSE {residual(s, o) \div (-Jac)}

\* ------------------------------------------------------- constraints
\* a function of time, U(t) = p[1] + p[2]*t + p[3]*t*t
Eval(p, time) == p[1] + p[2] * time + p[3] * time * time

\* the functions of constraint_1 and of constraint_2 of the tests
Zero      == <<0, 0, 0>>
TSquared  == <<0, 0, 1>>
ThreeT    == <<0, 3, 0>>
Two       == <<2, 0, 0>>

NonholonomicConstraintBase ==
    [kind |-> "NonholonomicConstraintBase",
     U |-> Zero, dU |-> Zero, ddU |-> Zero]

HolonomicConstraintBase ==
    [kind |-> "HolonomicConstraintBase",
     U |-> Zero, dU |-> Zero, ddU |-> Zero]

DirichletConstraint(U, dU, ddU) ==
    [kind |-> "DirichletConstraint", U |-> U, dU |-> dU, ddU |-> ddU]

\* the methods of the constraint interface that a class declares
Methods(c) ==
    IF c.kind = "NonholonomicConstraintBase"
    THEN {"B", "b", "a"}
    ELSE {"g", "B", "b", "a"}

Raise(error) == [raised |-> error, value |-> << >>]
Return(x)    == [raised |-> "none", value |-> x]

\* mutant of BaseMethod: the body of a is empty, the call returns nothing
BaseMethodPasses(method) ==
    IF method = "a"
    THEN Return(<< >>)
    ELSE Raise("NotImplementedError")

\* a method of NonholonomicConstraintBase or HolonomicConstraintBase
BaseMethod(method) == Raise("NotImplementedError")

\* DirichletConstraint.g: the residual u - U(t)
Dirichlet_g(c, X_local, u_local, time) == <<u_local - Eval(c.U, time)>>

\* DirichletConstraint.B: the Jacobian of g
Dirichlet_B(c, X_local, u_local, time) == <<1>>

\* mutant of Dirichlet_b: the derivative is formed from U
Dirichlet_b_from_U(c, X_local, u_local, time) ==
    <<-(c.U[2] + 2 * c.U[3] * time)>>

\* DirichletConstraint.b: the velocity drift, from the dU supplied
Dirichlet_b(c, X_local, u_local, time) == <<-Eval(c.dU, time)>>

\* DirichletConstraint.a: the acceleration drift, from the ddU supplied
Dirichlet_a(c, X_local, u_local, du_local, time) == <<-Eval(c.ddU, time)>>

\* what the call of a method on a constraint object returns or raises
Evaluate(c, k) ==
    IF c.kind # "DirichletConstraint"
    THEN BaseMethod(k.method)
    ELSE Return(CASE k.method = "g" -> Dirichlet_g(c, k.X, k.u, k.t)
                  [] k.method = "B" -> Dirichlet_B(c, k.X, k.u, k.t)
                  [] k.method = "b" -> Dirichlet_b(c, k.X, k.u, k.t)
                  [] OTHER -> Dirichlet_a(c, k.X, k.u, k.du, k.t))

\* no constraint object is at hand, none of its methods was called
NoConstraint ==
    /\ constraint = [kind |-> "none", U |-> Zero, dU |-> Zero, ddU |-> Zero]
    /\ call = [method |-> "none", X |-> 0, u |-> 0, du |-> 0, t |-> 0]
    /\ returned = Return(<< >>)

\* no NewmarkIntegrator is at hand
NoNewmark ==
    /\ delta_t = 0
    /\ has_mechanical_system = FALSE
    /\ time_range_arg = << >>
    /\ write_flag = FALSE
    /\ no_newton_convergence_flag = FALSE
    /\ recorded = << >>

\* ------------------------------------------- NonlinearDynamicsSolver.solve
\* a solver object before solve is called: the locals of solve hold no
\* value yet (written 0), nothing was asked of the linear solver
Constructed ==
    /\ pc = "setup"
    /\ t = 0 /\ q = 0 /\ dq = 0 /\ v = 0 /\ ddq = 0 /\ f_ext = 0
    /\ abs_f_ext = 0 /\ res_abs = 0 /\ n_iter = 0 /\ time_index = 0
    /\ q_old = 0 /\ dq_old = 0 /\ v_old = 0 /\ ddq_old = 0
    /\ f_ext_old = 0 /\ t_old = 0
    /\ history = << >>
    /\ iteration_info = << >>
    /\ lin_A = "none"
    /\ calls = NoCalls
    /\ accepted = << >>
    /\ seen_f_ext = {}
    /\ rollbacks = 0
    /\ last_step = "none"
    /\ aborted = FALSE
    /\ params = NoParameters
    /\ solves = 1

\* the options and variables of NonlinearStaticsSolver, unused by the
\* dynamics solves
NoStatics ==
    /\ no_of_load_steps = 0 /\ n_max_iter = 0 /\ smplfd_nwtn_itr = 1
    /\ save = FALSE
    /\ u = 0 /\ u_output = << >> /\ load_step = 0 /\ abs_res = 0
    /\ stale = FALSE

Init ==
    /\ dt \in DtChoices
    /\ dt_output \in DtOutputChoices
    /\ t_end \in {T0, TEnd}
    /\ rtol \in RTolChoices
    /\ atol \in ATolChoices
    /\ n_iter_max \in NIterMaxChoices
    /\ conv_abort \in BOOLEAN
    /\ write_iter \in WriteIterChoices
    /\ track_niter \in TrackNiterChoices
    /\ use_v \in BOOLEAN
    /\ has_factorize = FALSE
    /\ q0 \in Q0Choices /\ dq0 \in DQ0Choices
    /\ NoStatics
    /\ Conforming("NonlinearDynamics")
    /\ Constructed
    /\ NoConstraint
    /\ NoNewmark

\* MechanicalSystem.clear_timesteps()
clear_timesteps == << >>

\* lines 467-484: the variables of solve before its time step loop
Setup ==
    /\ pc = "setup"
    /\ Binds
    /\ history' = clear_timesteps
    /\ calls' = Called({"clear_timesteps", "set_parameters"})
    /\ iteration_info' = << >>
    /\ t' = T0
    /\ q' = q0 /\ dq' = dq0
    /\ v' = (IF use_v THEN dq0 ELSE 0)
    /\ ddq' = 0
    /\ f_ext' = 0
    /\ abs_f_ext' = atol
    /\ time_index' = 0
    /\ params' = set_parameters(rho_inf)
    /\ accepted' = <<[t |-> T0, u |-> q0]>>
    /\ pc' = "top"
    /\ UNCHANGED <<options, session, statics, res_abs, n_iter, saved, lin_A,
                   seen_f_ext, rollbacks, last_step, aborted>>

\* lines 558-560: the end of a time step
EndOfStep(time) ==
    iteration_info' = IF track_niter
                      THEN Append(iteration_info, <<time, n_iter', res_abs'>>)
                      ELSE iteration_info

\* lines 487-494: the loop test and the output of the current state
WriteOutput ==
    /\ pc = "top"
    /\ time_index < Len(time_range)
    /\ t + eps >= time_range[time_index + 1]
    /\ history' = write_timestep(history, t, 0, q)
    /\ time_index' = time_index + 1
    /\ pc' = IF time_index' = Len(time_range) THEN "clear" ELSE "predict"
    /\ UNCHANGED <<options, session, params, statics, working, abs_f_ext, res_abs, n_iter, saved,
                   iteration_info, lin_A, calls, accepted, seen_f_ext,
                   rollbacks, last_step, aborted>>

SkipOutput ==
    /\ pc = "top"
    /\ time_index < Len(time_range)
    /\ ~(t + eps >= time_range[time_index + 1])
    /\ pc' = "predict"
    /\ UNCHANGED <<options, session, params, statics, working, abs_f_ext, res_abs, n_iter, time_index,
                   saved, history, iteration_info, lin_A, calls, accepted,
                   seen_f_ext, rollbacks, last_step, aborted>>

\* line 487 with an empty time_range
LoopExit ==
    /\ pc = "top"
    /\ ~(time_index < Len(time_range))
    /\ pc' = "clear"
    /\ UNCHANGED <<options, session, params, statics, working, abs_f_ext, res_abs, n_iter, time_index,
                   saved, history, iteration_info, lin_A, calls, accepted,
                   seen_f_ext, rollbacks, last_step, aborted>>

\* mutant of RunningMax: the norms are summed up
RunningSum(scale, norm) == scale + norm

\* line 509: the relative scale of the convergence test
RunningMax(scale, norm) == Max(scale, norm)

\* lines 496-513: save the old variables, predict, first evaluation
Predict ==
    /\ pc = "predict"
    /\ q_old' = q /\ dq_old' = dq /\ v_old' = v /\ ddq_old' = ddq
    /\ f_ext_old' = f_ext /\ t_old' = t
    /\ t' = t + dt
    /\ LET p == predict(State) IN
         /\ q' = p.q /\ dq' = p.dq /\ v' = p.v /\ ddq' = p.ddq
    /\ \E fn \in f_ext_norms, rn \in res_norms(predict(State), State) :
         /\ f_ext' = fn
         /\ abs_f_ext' = RunningMax(abs_f_ext, fn)
         /\ seen_f_ext' = seen_f_ext \cup {fn}
         /\ res_abs' = rn
    /\ n_iter' = 0
    /\ calls' = Called({"predict", "newton_raphson"})
    /\ pc' = "newton"
    /\ UNCHANGED <<options, session, params, statics, time_index, history, iteration_info, lin_A,
                   accepted, rollbacks, last_step, aborted>>

\* line 514 false: the step is accepted; lines 558-560
Converged ==
    /\ pc = "newton"
    /\ ~(res_abs > Tolerance)
    /\ UNCHANGED <<res_abs, n_iter>>
    /\ EndOfStep(t)
    /\ accepted' = Append(accepted, [t |-> t, u |-> q])
    /\ last_step' = "accepted"
    /\ pc' = "top"
    /\ UNCHANGED <<options, session, params, statics, working, abs_f_ext, time_index, saved, history,
                   lin_A, calls, seen_f_ext, rollbacks, aborted>>

\* lines 516-538: one Newton correction (set_A, solve, correct), the
\* re-evaluation and the optional output of the iterate c
Correction(c, fn, rn) ==
    /\ pc = "newton"
    /\ res_abs > Tolerance
    /\ lin_A' = "Jac"
    /\ calls' = Called({"set_A", "solve", "correct", "newton_raphson"})
    /\ res_abs' = rn
    /\ n_iter' = n_iter + 1
    /\ history' = IF write_iter
                  THEN write_timestep(history, t, n_iter + 1, c.q)
                  ELSE history

\* line 541: the test that catches failing convergence
CapExceeded(n) == n > n_iter_max

\* lines 514-538 and the test of line 541 false: the loop goes on
NewtonContinue ==
    \E delta_q \in linsolver_solve(State, Saved) :
      LET c == correct(State, delta_q) IN
      \E fn \in f_ext_norms, rn \in res_norms(c, Saved) :
        /\ Correction(c, fn, rn)
        /\ ~CapExceeded(n_iter + 1)
        /\ q' = c.q /\ dq' = c.dq /\ v' = c.v /\ ddq' = c.ddq
        /\ f_ext' = fn
        /\ pc' = "newton"
        /\ UNCHANGED <<options, session, params, statics, t, abs_f_ext, time_index, saved,
                       iteration_info, accepted, seen_f_ext, rollbacks,
                       last_step, aborted>>

\* mutant of AbortReturn: the return is missing, the time step loop goes on
AbortFallsThrough ==
    /\ pc' = "top"
    /\ aborted' = TRUE

\* lines 543-547: the return of an aborted solve
AbortReturn ==
    /\ pc' = "done"
    /\ aborted' = TRUE

\* mutant of AbortOnFailure: the branch of line 542 is never taken
AbortOnFailureIgnored == FALSE

\* line 542: whether a step that does not converge ends the solve
AbortOnFailure == conv_abort

\* lines 541-547: conv_abort set, the solve returns
NewtonAbort ==
    \E delta_q \in linsolver_solve(State, Saved) :
      LET c == correct(State, delta_q) IN
      \E fn \in f_ext_norms, rn \in res_norms(c, Saved) :
        /\ Correction(c, fn, rn)
        /\ CapExceeded(n_iter + 1)
        /\ AbortOnFailure
        /\ q' = c.q /\ dq' = c.dq /\ v' = c.v /\ ddq' = c.ddq
        /\ f_ext' = fn
        /\ AbortReturn
        /\ UNCHANGED <<options, session, params, statics, t, abs_f_ext, time_index, saved,
                       iteration_info, accepted, seen_f_ext, rollbacks,
                       last_step>>

\* mutant of Rollback: q is not restored
RollbackKeepsQ(c) ==
    /\ t' = t_old
    /\ q' = c.q
    /\ dq' = dq_old
    /\ v' = v_old
    /\ ddq' = c.ddq
    /\ f_ext' = f_ext_old

\* mutant of Rollback: the time is set back one step too far
RollbackTooFar(c) ==
    /\ t' = t_old - dt
    /\ q' = q_old
    /\ dq' = dq_old
    /\ v' = v_old
    /\ ddq' = c.ddq
    /\ f_ext' = f_ext_old

\* lines 549-553: the variables a rollback restores; c is the last iterate
Rollback(c) ==
    /\ t' = t_old
    /\ q' = q_old
    /\ dq' = dq_old
    /\ v' = v_old
    /\ ddq' = c.ddq
    /\ f_ext' = f_ext_old

\* lines 541, 549-560: conv_abort not set, the step is rolled back.  With
\* counted set the rollbacks of the solve are counted, up to MaxRollbacks;
\* without it they are not, and a step that is retried from the state it
\* was retried from before is a cycle of the state graph.
RollbackStep(counted) ==
    \E delta_q \in linsolver_solve(State, Saved) :
      LET c == correct(State, delta_q) IN
      \E fn \in f_ext_norms, rn \in res_norms(c, Saved) :
        /\ Correction(c, fn, rn)
        /\ CapExceeded(n_iter + 1)
        /\ ~AbortOnFailure
        /\ Rollback(c)
        /\ EndOfStep(t_old)
        /\ IF counted
           THEN /\ rollbacks < MaxRollbacks
                /\ rollbacks' = rollbacks + 1
           ELSE rollbacks' = rollbacks
        /\ last_step' = "rollback"
        /\ pc' = "top"
        /\ UNCHANGED <<options, session, params, statics, abs_f_ext, time_index, saved, accepted,
                       seen_f_ext, aborted>>

NewtonRollback == RollbackStep(TRUE)

\* the rollback in the runs that are followed without an end
NewtonRetry == RollbackStep(FALSE)

\* lines 564-572: the end of solve
Clear ==
    /\ pc = "clear"
    /\ calls' = Called({"clear"})
    /\ pc' = "done"
    /\ UNCHANGED <<options, session, params, statics, working, abs_f_ext, res_abs, n_iter, time_index,
                   saved, history, iteration_info, lin_A, accepted,
                   seen_f_ext, rollbacks, last_step, aborted>>

Next ==
    \/ Setup
    \/ WriteOutput
    \/ SkipOutput
    \/ LoopExit
    \/ Predict
    \/ Converged
    \/ NewtonContinue
    \/ NewtonAbort
    \/ NewtonRollback
    \/ Clear

Spec == Init /\ [][Next]_vars

\* --------------------------------------------- LinearDynamicsSolver.solve
LinSolutions == {0, 1}   \* increments of q that linsolver.solve(f_eff) gives
DDQ0Choices  == {0, 1}   \* initial accelerations that linsolver.solve gives

\* update of GeneralizedAlphaLinearDynamicsSolver (use_v = FALSE) and of
\* JWHAlphaLinearDynamicsSolver (use_v = TRUE), in the scaled units
update(q_new, o) ==
    IF use_v
    THEN LET dq_new == (q_new - o.q) - o.dq
             v_new  == dq_new + o.dq - o.v
         IN [dq  |-> dq_new,
             v   |-> v_new,
             ddq |-> (v_new - o.v) - o.ddq]
    ELSE LET ddq_new == (q_new - o.q) - 2 * o.dq - o.ddq
         IN [dq  |-> o.dq + o.ddq + ddq_new,
             v   |-> 0,
             ddq |-> ddq_new]

\* effective_stiffness of the two linear schemes on a linear system: the
\* products with D_constr are formed whether it is None or not
effective_stiffness ==
    IF system.kind = "any"
    THEN Return(<< >>)
    ELSE IF system.D = None
         THEN Raise("TypeError")
         ELSE Return(<<system.M + system.D + system.K>>)

\* line 697: factorize is called when the adapter has it
Factorized(c) ==
    IF has_factorize THEN [c EXCEPT !.factorize = @ + 1] ELSE c

InitLin ==
    /\ dt \in DtChoices
    /\ dt_output \in DtOutputChoices
    /\ t_end \in {T0, TEnd}
    /\ rtol = 0 /\ atol = 0 /\ n_iter_max = 0
    /\ conv_abort = FALSE /\ write_iter = FALSE /\ track_niter = FALSE
    /\ use_v \in BOOLEAN
    /\ has_factorize \in BOOLEAN
    /\ q0 \in Q0Choices /\ dq0 \in DQ0Choices
    /\ NoStatics
    /\ Conforming("LinearDynamics")
    /\ Constructed
    /\ NoConstraint
    /\ NoNewmark

\* lines 689-698: the linear solver calls before the time step loop: the
\* effective stiffness, the initial acceleration, set_A(K_eff), factorize
LinSetupCalls ==
    Factorized([calls EXCEPT !.clear_timesteps = @ + 1,
                             !.set_parameters = @ + 1,
                             !.K_eff = @ + 1,
                             !.set_A = @ + 2,
                             !.solve = @ + 1])

\* lines 673-698: the variables of solve before its time step loop
LinSetup ==
    /\ pc = "setup"
    /\ Binds
    /\ effective_stiffness.raised = "none"
    /\ history' = clear_timesteps
    /\ t' = T0
    /\ q' = q0 /\ dq' = dq0
    /\ v' = (IF use_v THEN dq0 ELSE 0)
    /\ time_index' = 0
    /\ \E a \in DDQ0Choices : ddq' = a
    /\ lin_A' = "K_eff"
    /\ calls' = LinSetupCalls
    /\ params' = set_parameters(rho_inf)
    /\ accepted' = <<[t |-> T0, u |-> q0]>>
    /\ pc' = "top"
    /\ UNCHANGED <<options, session, statics, f_ext, abs_f_ext, res_abs, n_iter, saved,
                   iteration_info, seen_f_ext, rollbacks, last_step, aborted>>

\* lines 701-708: the loop test and the output of the current state
LinWriteOutput ==
    /\ pc = "top"
    /\ time_index < Len(time_range)
    /\ t + eps >= time_range[time_index + 1]
    /\ history' = write_timestep(history, t, 0, q)
    /\ time_index' = time_index + 1
    /\ pc' = IF time_index' = Len(time_range) THEN "clear" ELSE "step"
    /\ UNCHANGED <<options, session, params, statics, working, abs_f_ext, res_abs, n_iter,
                   saved, iteration_info, lin_A, calls, accepted, seen_f_ext,
                   rollbacks, last_step, aborted>>

LinSkipOutput ==
    /\ pc = "top"
    /\ time_index < Len(time_range)
    /\ ~(t + eps >= time_range[time_index + 1])
    /\ pc' = "step"
    /\ UNCHANGED <<options, session, params, statics, working, abs_f_ext, res_abs, n_iter,
                   time_index, saved, history, iteration_info, lin_A, calls,
                   accepted, seen_f_ext, rollbacks, last_step, aborted>>

\* line 701 with an empty time_range
LinLoopExit ==
    /\ pc = "top"
    /\ ~(time_index < Len(time_range))
    /\ pc' = "clear"
    /\ UNCHANGED <<options, session, params, statics, working, abs_f_ext, res_abs, n_iter,
                   time_index, saved, history, iteration_info, lin_A, calls,
                   accepted, seen_f_ext, rollbacks, last_step, aborted>>

\* mutant of LinStepCalls: the matrix is installed again in every step
LinStepCallsSetA == Called({"set_A", "solve"})

\* lines 719-721: what one time step asks of the linear solver
LinStepCalls == Called({"solve"})

\* lines 710-725: one time step
LinStep ==
    /\ pc = "step"
    /\ q_old' = q /\ dq_old' = dq /\ v_old' = v /\ ddq_old' = ddq
    /\ t_old' = t
    /\ t' = t + dt
    /\ calls' = LinStepCalls
    /\ \E d \in LinSolutions :
         LET n == update(q + d, State) IN
           /\ q' = q + d
           /\ dq' = n.dq /\ v' = n.v /\ ddq' = n.ddq
    /\ accepted' = Append(accepted, [t |-> t', u |-> q'])
    /\ last_step' = "accepted"
    /\ pc' = "top"
    /\ UNCHANGED <<options, session, params, statics, f_ext, abs_f_ext, res_abs, n_iter,
                   time_index, f_ext_old, history, iteration_info, lin_A,
                   seen_f_ext, rollbacks, aborted>>

\* lines 729-734: the end of solve
LinClear ==
    /\ pc = "clear"
    /\ calls' = Called({"clear"})
    /\ pc' = "done"
    /\ UNCHANGED <<options, session, params, statics, working, abs_f_ext, res_abs, n_iter,
                   time_index, saved, history, iteration_info, lin_A,
                   accepted, seen_f_ext, rollbacks, last_step, aborted>>

NextLin ==
    \/ LinSetup
    \/ LinWriteOutput
    \/ LinSkipOutput
    \/ LinLoopExit
    \/ LinStep
    \/ LinClear

SpecLin == InitLin /\ [][NextLin]_vars

\* -------------------------------------------- NonlinearStaticsSolver.solve
\* The load factor t = k*stepwidth is written k (the load step), and a time
\* t + n_iter*0.000001 is written (k, n_iter).  newton_damping is 1.

\* the no_of_load_steps up to 100 whose stepwidth s = 1/no_of_load_steps
\* makes ((1.0 + s) - s)/s, rounded as IEEE doubles round each operation,
\* exceed no_of_load_steps (49.00000000000001 for 49)
RoundedUp == {49}

\* line 196: the length of np.arange(stepwidth, 1.0 + stepwidth, stepwidth),
\* which is ceil((stop - start)/step) in double arithmetic
LoadRangeLen(n) == IF n \in RoundedUp THEN n + 1 ELSE n

\* the pairs (no_of_load_steps, n_max_iter) of the statics solves
StaticsCases ==
    ((1..MaxLoadSteps) \X {1, 2}) \cup (RoundedUp \X {0})

SmplfdChoices == {1, 2}

\* res = -f_int + f_ext of a linear system at the displacement x and the
\* load step k (lines 198-200, 215-217)
stat_residual(x, k) == k * system.F - system.K * x

\* the values norm_of_vector(f_ext) can take at the load step k
stat_f_ext_norms(k) ==
    IF system.kind = "any" THEN FExtNorms ELSE {Abs(k * system.F)}

\* the values norm_of_vector(res) can take at x and the load step k
stat_res_norms(x, k) ==
    IF system.kind = "any" THEN ResNorms ELSE {Abs(stat_residual(x, k))}

\* the values of linsolver.solve(res) with A = K (lines 209-210); the
\* residual of a linear system is the one of the current displacement, as
\* its Newton loop ends with the first evaluation after a correction
stat_linsolver_solve(x, k) ==
    IF system.kind = "any"
    THEN DeltaQ
    ELSE {stat_residual(x, k) \div system.K}

InitStat ==
    /\ dt = 0 /\ dt_output = 0 /\ t_end = 0 /\ n_iter_max = 0
    /\ use_v = FALSE /\ has_factorize = FALSE /\ q0 = 0 /\ dq0 = 0
    /\ rtol \in RTolChoices
    /\ atol \in ATolChoices
    /\ \E c \in StaticsCases :
         no_of_load_steps = c[1] /\ n_max_iter = c[2]
    /\ smplfd_nwtn_itr \in SmplfdChoices
    /\ conv_abort \in BOOLEAN
    /\ save \in BOOLEAN
    /\ write_iter \in WriteIterChoices
    /\ track_niter \in TrackNiterChoices
    /\ u = 0 /\ u_output = << >> /\ load_step = 0 /\ abs_res = 0
    /\ stale = FALSE
    /\ Conforming("NonlinearStatics")
    /\ Constructed
    /\ NoConstraint
    /\ NoNewmark

dynamics == <<working, res_abs, time_index, saved, seen_f_ext, rollbacks>>

\* lines 183-193: the variables of solve before its load step loop
StatSetup ==
    /\ pc = "setup"
    /\ calls' = Called({"clear_timesteps"})
    /\ iteration_info' = << >>
    /\ u_output' = << >>
    /\ u' = 0
    /\ load_step' = 0
    /\ history' = write_timestep(clear_timesteps, 0, 0, 0)
    /\ accepted' = <<[t |-> 0, u |-> 0]>>
    /\ pc' = "load"
    /\ UNCHANGED <<options, session, params, dynamics, abs_res, stale, abs_f_ext, n_iter,
                   lin_A, last_step, aborted>>

\* lines 196-205: the next load factor and the first evaluation
StatLoadStep ==
    /\ pc = "load"
    /\ load_step < LoadRangeLen(no_of_load_steps)
    /\ load_step' = load_step + 1
    /\ \E fn \in stat_f_ext_norms(load_step + 1),
          rn \in stat_res_norms(u, load_step + 1) :
         /\ abs_f_ext' = fn
         /\ abs_res' = rn
    /\ stale' = FALSE
    /\ n_iter' = 0
    /\ pc' = "newton"
    /\ UNCHANGED <<options, session, params, dynamics, u, u_output, history, iteration_info,
                   lin_A, calls, accepted, last_step, aborted>>

\* line 206: the test of the Newton iteration loop
StatIterating ==
    /\ abs_res > rtol * abs_f_ext + atol
    /\ n_max_iter > n_iter

\* lines 209-226: one Newton iteration; K, f_int and f_ext are evaluated
\* anew when n_iter % smplfd_nwtn_itr is 0, else the residual is formed
\* from the ones at hand
StatCorrection(delta_u, fn, rn) ==
    /\ pc = "newton"
    /\ StatIterating
    /\ lin_A' = "K"
    /\ calls' = Called({"set_A", "solve"})
    /\ u' = u + delta_u
    /\ IF n_iter % smplfd_nwtn_itr = 0
       THEN abs_f_ext' = fn /\ abs_res' = rn /\ stale' = FALSE
       ELSE abs_f_ext' = abs_f_ext /\ abs_res' = abs_res /\ stale' = TRUE
    /\ n_iter' = n_iter + 1
    /\ history' = IF write_iter
                  THEN write_timestep(history, load_step, n_iter + 1, u')
                  ELSE history

\* line 229 false: the loop goes on to its test
StatNewtonContinue ==
    \E delta_u \in stat_linsolver_solve(u, load_step) :
    \E fn \in stat_f_ext_norms(load_step),
       rn \in stat_res_norms(u + delta_u, load_step) :
      /\ StatCorrection(delta_u, fn, rn)
      /\ ~(n_iter + 1 >= n_max_iter /\ conv_abort)
      /\ pc' = "newton"
      /\ UNCHANGED <<options, session, params, dynamics, u_output, load_step, iteration_info,
                     accepted, last_step, aborted>>

\* lines 229-234: the maximum of iterations is reached, solve returns
StatNewtonAbort ==
    \E delta_u \in stat_linsolver_solve(u, load_step) :
    \E fn \in stat_f_ext_norms(load_step),
       rn \in stat_res_norms(u + delta_u, load_step) :
      /\ StatCorrection(delta_u, fn, rn)
      /\ n_iter + 1 >= n_max_iter /\ conv_abort
      /\ aborted' = TRUE
      /\ pc' = "done"
      /\ UNCHANGED <<options, session, params, dynamics, u_output, load_step, iteration_info,
                     accepted, last_step>>

\* lines 236-243: the Newton loop is left, the load step is recorded.  Of
\* the states that met the convergence criterion, accepted keeps the last.
StatEndOfStep ==
    /\ pc = "newton"
    /\ ~StatIterating
    /\ history' = IF save
                  THEN write_timestep(history, load_step, 0, u)
                  ELSE history
    /\ u_output' = Append(u_output, u)
    /\ iteration_info' = IF track_niter
                         THEN Append(iteration_info,
                                     <<load_step, n_iter, abs_res>>)
                         ELSE iteration_info
    /\ IF abs_res > rtol * abs_f_ext + atol
       THEN last_step' = "unconverged" /\ accepted' = accepted
       ELSE /\ last_step' = "accepted"
            /\ accepted' = <<[t |-> load_step, u |-> u]>>
    /\ pc' = "load"
    /\ UNCHANGED <<options, session, params, dynamics, u, load_step, abs_res, stale,
                   abs_f_ext, n_iter, lin_A, calls, aborted>>

\* lines 247-251: the end of solve
StatReturn ==
    /\ pc = "load"
    /\ ~(load_step < LoadRangeLen(no_of_load_steps))
    /\ pc' = "done"
    /\ UNCHANGED <<options, session, params, dynamics, statics, abs_f_ext, n_iter, history,
                   iteration_info, lin_A, calls, accepted, last_step,
                   aborted>>

NextStat ==
    \/ StatSetup
    \/ StatLoadStep
    \/ StatNewtonContinue
    \/ StatNewtonAbort
    \/ StatEndOfStep
    \/ StatReturn

SpecStat == InitStat /\ [][NextStat]_vars


\* ---------------------------------------------- LinearStaticsSolver.solve
StaticsT == 1          \* solver.py:273: self.t = 1.0

InitLinStat ==
    /\ dt = 0 /\ dt_output = 0 /\ t_end = 0 /\ n_iter_max = 0
    /\ rtol = 0 /\ atol = 0
    /\ conv_abort = FALSE /\ write_iter = FALSE /\ track_niter = FALSE
    /\ use_v = FALSE /\ has_factorize = FALSE /\ q0 = 0 /\ dq0 = 0
    /\ NoStatics
    /\ Conforming("LinearStatics")
    /\ Constructed
    /\ NoConstraint
    /\ NoNewmark

\* mutant of LinStatSolve: the history is not cleared
LinStatSolveKeepsHistory ==
    /\ pc = "setup"
    /\ \E x \in LinSolutions :
         /\ u' = x
         /\ history' = write_timestep(write_timestep(history, 0, 0, 0),
                                      StaticsT, 0, x)
         /\ accepted' = <<[t |-> 0, u |-> 0], [t |-> StaticsT, u |-> x]>>
    /\ lin_A' = "K"
    /\ calls' = Called({"clear_timesteps", "set_A", "solve"})
    /\ pc' = "done"
    /\ UNCHANGED <<options, session, params, dynamics, u_output, load_step,
                   abs_res, stale, abs_f_ext, n_iter, iteration_info,
                   last_step, aborted>>

\* lines 291-302: the whole solve
LinStatSolve ==
    /\ pc = "setup"
    /\ \E x \in LinSolutions :
         /\ u' = x
         /\ history' = write_timestep(
                           write_timestep(clear_timesteps, 0, 0, 0),
                           StaticsT, 0, x)
         /\ accepted' = <<[t |-> 0, u |-> 0], [t |-> StaticsT, u |-> x]>>
    /\ lin_A' = "K"
    /\ calls' = Called({"clear_timesteps", "set_A", "solve"})
    /\ pc' = "done"
    /\ UNCHANGED <<options, session, params, dynamics, u_output, load_step,
                   abs_res, stale, abs_f_ext, n_iter, iteration_info,
                   last_step, aborted>>

\* --------------------------------- consecutive solves on one system
\* solve is called again on the solver: its local variables hold no value
\* yet, the mechanical system keeps the history of the solve before
SolveAgain ==
    /\ pc = "done"
    /\ solves < MaxSolves
    /\ solves' = solves + 1
    /\ pc' = "setup"
    /\ t' = 0 /\ q' = 0 /\ dq' = 0 /\ v' = 0 /\ ddq' = 0 /\ f_ext' = 0
    /\ abs_f_ext' = 0 /\ res_abs' = 0 /\ n_iter' = 0 /\ time_index' = 0
    /\ q_old' = 0 /\ dq_old' = 0 /\ v_old' = 0 /\ ddq_old' = 0
    /\ f_ext_old' = 0 /\ t_old' = 0
    /\ u' = 0 /\ u_output' = << >> /\ load_step' = 0 /\ abs_res' = 0
    /\ stale' = FALSE
    /\ lin_A' = "none"
    /\ calls' = NoCalls
    /\ accepted' = << >>
    /\ seen_f_ext' = {}
    /\ rollbacks' = 0
    /\ last_step' = "none"
    /\ aborted' = FALSE
    /\ UNCHANGED <<options, solver, signature, rho_inf, given, system,
                   constraints, newmark, params, history, iteration_info>>

InitSolves ==
    \/ Init /\ dt = 4 /\ dt_output = 4 /\ t_end = TEnd /\ ~use_v
    \/ InitLin /\ dt = 4 /\ dt_output = 4 /\ t_end = TEnd /\ ~use_v
    \/ InitStat /\ no_of_load_steps = 1 /\ smplfd_nwtn_itr = 1
    \/ InitLinStat

NextSolves ==
    \/ solver = "NonlinearDynamics" /\ Next
    \/ solver = "LinearDynamics" /\ NextLin
    \/ solver = "NonlinearStatics" /\ NextStat
    \/ solver = "LinearStatics" /\ LinStatSolve
    \/ SolveAgain

SpecSolves == InitSolves /\ [][NextSolves]_vars


\* ------------------------------------ NonlinearDynamicsSolver.__init__
Lengths == {Absent} \cup (0..(no_of_dofs + 1))

\* mutant of set_initial_conditions: the lengths are not compared
set_initial_conditions_unchecked(g) == "ok"

\* lines 424-440: the initial conditions given are of length no_of_dofs
set_initial_conditions(g) ==
    IF g.q0 \notin {Absent, no_of_dofs} THEN "ValueError"
    ELSE IF g.dq0 \notin {Absent, no_of_dofs} THEN "ValueError"
    ELSE "ok"

\* lines 373-376: the time step size is given
read_dt(g) == IF g.dt THEN "ok" ELSE "ValueError"

\* a solver class and the keyword options of a constructor call; no
\* attribute of the solver is set yet (written 0 and FALSE)
InitConstruct ==
    /\ dt = 0 /\ dt_output = 0 /\ t_end = 0 /\ n_iter_max = 0
    /\ rtol = 0 /\ atol = 0
    /\ conv_abort = FALSE /\ write_iter = FALSE /\ track_niter = FALSE
    /\ use_v = FALSE /\ has_factorize = FALSE /\ q0 = 0 /\ dq0 = 0
    /\ NoStatics
    /\ solver = "NonlinearDynamics"
    /\ signature \in {KeywordOptions, OptionsOnly}
    /\ rho_inf = R(1)
    /\ given \in [dt : BOOLEAN, q0 : Lengths, dq0 : Lengths]
    /\ system = AnySystem
    /\ t = 0 /\ q = 0 /\ dq = 0 /\ v = 0 /\ ddq = 0 /\ f_ext = 0
    /\ abs_f_ext = 0 /\ res_abs = 0 /\ n_iter = 0 /\ time_index = 0
    /\ q_old = 0 /\ dq_old = 0 /\ v_old = 0 /\ ddq_old = 0
    /\ f_ext_old = 0 /\ t_old = 0
    /\ history = << >>
    /\ iteration_info = << >>
    /\ lin_A = "none"
    /\ calls = NoCalls
    /\ accepted = << >>
    /\ seen_f_ext = {}
    /\ rollbacks = 0
    /\ last_step = "none"
    /\ aborted = FALSE
    /\ params = NoParameters
    /\ solves = 1
    /\ NoConstraint
    /\ NoNewmark
    /\ pc = "new"

\* lines 353-422 and 761-769, 860-868: the constructor raises, or sets the
\* attributes from the options and the defaults
Construct ==
    /\ pc = "new"
    /\ IF set_initial_conditions(given) = "ok" /\ read_dt(given) = "ok"
       THEN /\ q0' \in (IF given.q0 = Absent THEN {0} ELSE Q0Choices)
            /\ dq0' \in (IF given.dq0 = Absent THEN {0} ELSE DQ0Choices)
            /\ t_end' \in {T0, TEnd}
            /\ dt' = 4
            /\ dt_output' = 4
            /\ rtol' \in RTolChoices
            /\ atol' \in ATolChoices
            /\ n_iter_max' \in NIterMaxChoices
            /\ conv_abort' \in BOOLEAN
            /\ write_iter' \in WriteIterChoices
            /\ track_niter' \in TrackNiterChoices
            /\ use_v' \in BOOLEAN
            /\ pc' = "setup"
       ELSE /\ pc' = "construct_error"
            /\ UNCHANGED <<dt, dt_output, t_end, rtol, atol, n_iter_max,
                           conv_abort, write_iter, track_niter, use_v, q0,
                           dq0>>
    /\ UNCHANGED <<has_factorize, no_of_load_steps, n_max_iter,
                   smplfd_nwtn_itr, save, session, params, statics, working,
                   abs_f_ext, res_abs, n_iter, time_index, saved, history,
                   iteration_info, lin_A, calls, accepted, seen_f_ext,
                   rollbacks, last_step, aborted>>

\* lines 467-484 when the call of line 484 does not bind its arguments:
\* set_parameters is not entered, solve ends with a TypeError
SetupRaises ==
    /\ pc = "setup"
    /\ ~Binds
    /\ history' = clear_timesteps
    /\ calls' = Called({"clear_timesteps"})
    /\ iteration_info' = << >>
    /\ t' = T0
    /\ q' = q0 /\ dq' = dq0
    /\ v' = (IF use_v THEN dq0 ELSE 0)
    /\ ddq' = 0
    /\ f_ext' = 0
    /\ abs_f_ext' = atol
    /\ time_index' = 0
    /\ pc' = "raised"
    /\ UNCHANGED <<options, session, params, statics, res_abs, n_iter, saved,
                   lin_A, accepted, seen_f_ext, rollbacks, last_step,
                   aborted>>

NextConstruct ==
    \/ Construct
    \/ SetupRaises
    \/ Next

SpecConstruct == InitConstruct /\ [][NextConstruct]_vars

\* ------------------------------- solves with the diagnostics switched on
\* NonlinearDynamicsSolver with write_iter and track_niter set
InitDiagnostics ==
    /\ dt = 4
    /\ dt_output = 4
    /\ t_end \in {T0, TEnd}
    /\ rtol \in RTolChoices
    /\ atol \in ATolChoices
    /\ n_iter_max \in NIterMaxChoices
    /\ conv_abort \in BOOLEAN
    /\ write_iter = TRUE
    /\ track_niter = TRUE
    /\ use_v = FALSE
    /\ has_factorize = FALSE
    /\ q0 \in Q0Choices /\ dq0 \in DQ0Choices
    /\ NoStatics
    /\ Conforming("NonlinearDynamics")
    /\ Constructed
    /\ NoConstraint
    /\ NoNewmark

SpecDiagnostics == InitDiagnostics /\ [][Next]_vars

\* ----------------------------------- dynamics solves of a linear system
LinearDynamicsSystems ==
    {LinearSystem(c[1], c[2], f) :
        c \in {<<1, 0>>, <<1, 1>>, <<2, 0>>}, f \in {0, 2}}

\* the scheme solvers on a linear system; the shipped schemes among them,
\* whose set_parameters takes one positional argument
InitLinearSystem ==
    /\ dt \in {2, 4}
    /\ dt_output = 4
    /\ t_end \in {T0, TEnd}
    /\ rtol = 0
    /\ atol \in ATolChoices
    /\ n_iter_max \in NIterMaxChoices
    /\ conv_abort \in BOOLEAN
    /\ write_iter \in WriteIterChoices
    /\ track_niter \in TrackNiterChoices
    /\ use_v \in BOOLEAN
    /\ has_factorize = FALSE
    /\ q0 \in {0, 1} /\ dq0 \in {0, 1}
    /\ NoStatics
    /\ solver = "NonlinearDynamics"
    /\ signature \in {KeywordOptions, OptionsOnly}
    /\ rho_inf = R(1)
    /\ given = ValidOptions
    /\ system \in LinearDynamicsSystems
    /\ Constructed
    /\ NoConstraint
    /\ NoNewmark

NextLinearSystem ==
    \/ SetupRaises
    \/ Next

SpecLinearSystem == InitLinearSystem /\ [][NextLinearSystem]_vars

\* ------------------------------------------- dynamics solves run to an end
\* solve of the generalized-alpha scheme on an arbitrary and on a linear
\* system, without the optional outputs; the interpreter runs the loop of
\* solve until solve returns, so a step that is possible is taken
InitRuns ==
    /\ dt = 4
    /\ dt_output = 4
    /\ t_end \in {T0, TEnd}
    /\ rtol \in RTolChoices
    /\ atol \in ATolChoices
    /\ n_iter_max \in NIterMaxChoices
    /\ conv_abort \in BOOLEAN
    /\ write_iter = FALSE
    /\ track_niter = FALSE
    /\ use_v = FALSE
    /\ has_factorize = FALSE
    /\ q0 \in Q0Choices /\ dq0 \in DQ0Choices
    /\ NoStatics
    /\ solver = "NonlinearDynamics"
    /\ signature = KeywordOptions
    /\ rho_inf = R(1)
    /\ given = ValidOptions
    /\ system \in {AnySystem, LinearSystem(1, 0, 2)}
    /\ Constructed
    /\ NoConstraint
    /\ NoNewmark

\* the steps of solve after the setup of lines 467-484
Running ==
    \/ WriteOutput
    \/ SkipOutput
    \/ LoopExit
    \/ Predict
    \/ Converged
    \/ NewtonContinue
    \/ NewtonAbort
    \/ NewtonRetry
    \/ Clear

NextRuns ==
    \/ Setup
    \/ Running

\* a solve that was called goes on until it returns
SpecRuns == InitRuns /\ [][NextRuns]_vars /\ WF_vars(Running)

\* ------------------------------------- statics solves of a linear system
LinearStaticsSystems ==
    {LinearSystem(0, k, f) : k \in {1, 2}, f \in {2, 4}}

InitLinearStatics ==
    /\ dt = 0 /\ dt_output = 0 /\ t_end = 0 /\ n_iter_max = 0
    /\ use_v = FALSE /\ has_factorize = FALSE /\ q0 = 0 /\ dq0 = 0
    /\ rtol = 0
    /\ atol \in {1, 2}
    /\ no_of_load_steps \in 1..MaxLoadSteps
    /\ n_max_iter \in {0, 1, 2}
    /\ smplfd_nwtn_itr \in SmplfdChoices
    /\ conv_abort \in BOOLEAN
    /\ save \in BOOLEAN
    /\ write_iter \in WriteIterChoices
    /\ track_niter \in TrackNiterChoices
    /\ u = 0 /\ u_output = << >> /\ load_step = 0 /\ abs_res = 0
    /\ stale = FALSE
    /\ solver = "NonlinearStatics"
    /\ signature = KeywordOptions
    /\ rho_inf = R(1)
    /\ given = ValidOptions
    /\ system \in LinearStaticsSystems
    /\ Constructed
    /\ NoConstraint
    /\ NoNewmark

SpecLinearStatics == InitLinearStatics /\ [][NextStat]_vars

\* ------------------------------------------ set_parameters, called alone
\* the largest denominator of the spectral radii rho_inf drawn
MaxRhoDen == 12

\* rho_inf when the options hold none (lines 767, 866)
RhoInfDefault == Rat(9, 10)

\* the spectral radii in [0, 1] given in the options
RhoInfChoices ==
    {Rat(n, d) : n \in 0..MaxRhoDen, d \in 1..MaxRhoDen} \cap
    {r \in (0..MaxRhoDen) \X (1..MaxRhoDen) : r[1] <= r[2]}

\* lines 761-769, 860-868: a scheme object after its constructor
InitParameters ==
    /\ dt = 4 /\ dt_output = 4 /\ t_end = TEnd /\ n_iter_max = 1
    /\ rtol = 1 /\ atol = 1
    /\ conv_abort = FALSE /\ write_iter = FALSE /\ track_niter = FALSE
    /\ use_v \in BOOLEAN
    /\ has_factorize = FALSE /\ q0 = 0 /\ dq0 = 0
    /\ NoStatics
    /\ solver = "NonlinearDynamics"
    /\ signature = OptionsOnly
    /\ rho_inf \in RhoInfChoices \cup {RhoInfDefault}
    /\ given = ValidOptions
    /\ system = AnySystem
    /\ Constructed
    /\ NoConstraint
    /\ NoNewmark

\* lines 771-780, 870-879: set_parameters(options) called on the object
SetParameters ==
    /\ pc = "setup"
    /\ params' = set_parameters(rho_inf)
    /\ calls' = Called({"set_parameters"})
    /\ pc' = "parameters"
    /\ UNCHANGED <<options, session, statics, working, abs_f_ext, res_abs,
                   n_iter, time_index, saved, history, iteration_info,
                   lin_A, accepted, seen_f_ext, rollbacks, last_step,
                   aborted>>

NextParameters == SetParameters

SpecParameters == InitParameters /\ [][NextParameters]_vars

\* ------------------------------------------- calls of constraint methods
\* the largest time at which a constraint is evaluated
MaxTime == 3

\* the constraint objects: the two base classes, constraint_1 and
\* constraint_2 of the tests, and a uniform motion
ConstraintObjects ==
    {NonholonomicConstraintBase, HolonomicConstraintBase,
     DirichletConstraint(Zero, Zero, Zero),
     DirichletConstraint(TSquared, ThreeT, Two),
     DirichletConstraint(<<0, 1, 0>>, <<1, 0, 0>>, Zero)}

XChoices == {5, 6}
UChoices == {-1, 0, 1}

InitConstraint ==
    /\ dt = 0 /\ dt_output = 0 /\ t_end = 0 /\ n_iter_max = 0
    /\ rtol = 0 /\ atol = 0
    /\ conv_abort = FALSE /\ write_iter = FALSE /\ track_niter = FALSE
    /\ use_v = FALSE /\ has_factorize = FALSE /\ q0 = 0 /\ dq0 = 0
    /\ NoStatics
    /\ Conforming("none")
    /\ Constructed
    /\ constraint \in ConstraintObjects
    /\ call = [method |-> "none", X |-> 0, u |-> 0, du |-> 0, t |-> 0]
    /\ returned = Return(<< >>)
    /\ NoNewmark

\* one call of a method of the constraint object; du is an argument of a
\* alone
ConstraintCall ==
    /\ \E method \in Methods(constraint), X_local \in XChoices,
          u_local \in UChoices, time \in 0..MaxTime :
       \E du_local \in (IF method = "a"
                        THEN {0, Eval(constraint.dU, time)}
                        ELSE {0}) :
         /\ call' = [method |-> method, X |-> X_local, u |-> u_local,
                     du |-> du_local, t |-> time]
         /\ returned' = Evaluate(constraint, call')
    /\ UNCHANGED <<options, statics, pc, working, abs_f_ext, res_abs,
                   n_iter, time_index, saved, history, iteration_info,
                   lin_A, calls, accepted, seen_f_ext, rollbacks,
                   last_step, aborted, solver, signature, rho_inf, given,
                   system, solves, constraint, newmark, params>>

NextConstraint == ConstraintCall

SpecConstraint == InitConstraint /\ [][NextConstraint]_vars

\* ------------------------- linear dynamics solves with and without damping
LinearDampingSystems ==
    {LinearSystem(1, 1, 0), LinearSystem(2, 1, 2)} \cup
    {DampedSystem(1, d, 1, f) : d \in {0, 1}, f \in {0, 2}}

InitLinearDamping ==
    /\ dt \in DtChoices
    /\ dt_output \in DtOutputChoices
    /\ t_end \in {T0, TEnd}
    /\ rtol = 0 /\ atol = 0 /\ n_iter_max = 0
    /\ conv_abort = FALSE /\ write_iter = FALSE /\ track_niter = FALSE
    /\ use_v \in BOOLEAN
    /\ has_factorize \in BOOLEAN
    /\ q0 \in Q0Choices /\ dq0 \in DQ0Choices
    /\ NoStatics
    /\ solver = "LinearDynamics"
    /\ signature = KeywordOptions
    /\ rho_inf = R(1)
    /\ given = ValidOptions
    /\ system \in LinearDampingSystems
    /\ Constructed
    /\ NoConstraint
    /\ NoNewmark

\* lines 673-689 and 986-991, 1075-1080: effective_stiffness raises on the
\* product of a number and None, solve ends with a TypeError
EffectiveStiffnessRaises ==
    /\ pc = "setup"
    /\ Binds
    /\ effective_stiffness.raised = "TypeError"
    /\ history' = clear_timesteps
    /\ t' = T0
    /\ q' = q0 /\ dq' = dq0
    /\ v' = (IF use_v THEN dq0 ELSE 0)
    /\ ddq' = 0
    /\ time_index' = 0
    /\ calls' = Called({"clear_timesteps", "set_parameters", "K_eff"})
    /\ params' = set_parameters(rho_inf)
    /\ pc' = "raised"
    /\ UNCHANGED <<options, session, statics, f_ext, abs_f_ext, res_abs,
                   n_iter, saved, iteration_info, lin_A, accepted,
                   seen_f_ext, rollbacks, last_step, aborted>>

NextLinearDamping ==
    \/ EffectiveStiffnessRaises
    \/ NextLin

SpecLinearDamping == InitLinearDamping /\ [][NextLinearDamping]_vars

\* ----------------------- NewmarkIntegrator.integrate_nonlinear_system
\* Times are counted in ticks of 1E-7, so that dt < 1E-8 reads dt < 1 and
\* time_range[0] < 1E-12 reads time_range[0] < 1.  With alpha = 0 (beta =
\* 1/4, gamma = 1/2) q holds 4*q and dq holds 2*dq, and a Newton correction
\* delta_q is k*dt*dt/4, so that all values are integers.

\* the largest number of steps that do not converge in one run
MaxFailures == 2

\* the time_range arguments: with and without an entry at 0, with entries
\* nearer than and farther than delta_t, and with a repeated entry
TimeRanges ==
    {<<0, 4>>, <<0, 8>>, <<0, 6>>, <<4>>, <<2, 8>>, <<3, 3>>, <<3, 4>>}

DeltaTChoices == {2, 4}

\* the residual norm in units of eps*norm_of_vector(f_non): the loop of
\* line 119 goes on while it is above 1
NewmarkResNorms == {0, 2}
NewmarkDeltaQ == {1}

\* lines 108-110: the prediction
newmark_predict(s, h) ==
    [q   |-> s.q + 2 * h * s.dq + h * h * s.ddq,
     dq  |-> s.dq + h * s.ddq,
     ddq |-> 0]

\* lines 124-126: the correction by delta_q = k*dt*dt/4
newmark_correct(s, h, k) ==
    [q   |-> s.q + k * h * h,
     dq  |-> s.dq + k * h,
     ddq |-> s.ddq + k]

\* a vector is appended to the record: by reference (live) or as a copy
Record(rec, time, x, live, conv) ==
    Append(rec, [t |-> time, u |-> x, live |-> live, converged |-> conv])

\* q is updated in place: every recorded reference to it shows the update
InPlace(rec, x) ==
    [i \in DOMAIN rec |->
        IF rec[i].live THEN [rec[i] EXCEPT !.u = x] ELSE rec[i]]

\* q is bound to a new array: the recorded references keep the old one
Rebound(rec) ==
    [i \in DOMAIN rec |-> [rec[i] EXCEPT !.live = FALSE]]

InitNewmark ==
    /\ dt = 0 /\ dt_output = 0 /\ t_end = 0
    /\ n_iter_max \in NIterMaxChoices
    /\ rtol = 0 /\ atol = 0
    /\ conv_abort = FALSE /\ write_iter = FALSE /\ track_niter = FALSE
    /\ use_v = FALSE /\ has_factorize = FALSE
    /\ q0 \in Q0Choices /\ dq0 \in DQ0Choices
    /\ NoStatics
    /\ Conforming("NewmarkIntegrator")
    /\ Constructed
    /\ NoConstraint
    /\ delta_t \in DeltaTChoices
    /\ has_mechanical_system \in BOOLEAN
    /\ time_range_arg \in TimeRanges
    /\ write_flag = FALSE
    /\ no_newton_convergence_flag = FALSE
    /\ recorded = << >>

NewmarkFrame ==
    UNCHANGED <<dt_output, t_end, rtol, atol, n_iter_max, conv_abort,
                write_iter, track_niter, use_v, has_factorize, q0, dq0,
                no_of_load_steps, n_max_iter, smplfd_nwtn_itr, save,
                statics, v, f_ext, abs_f_ext, v_old, ddq_old, f_ext_old,
                iteration_info, lin_A, seen_f_ext, aborted, solver,
                signature, rho_inf, given, system, solves, constraints,
                delta_t, has_mechanical_system, time_range_arg, params>>

\* lines 69-88: the variables before the time loop; the start vector is
\* appended to q_global as it is when time_range starts at 0
NewmarkSetup ==
    /\ pc = "setup"
    /\ q' = q0 /\ dq' = dq0
    /\ \E a \in DDQ0Choices : ddq' = a
    /\ t' = 0
    /\ write_flag' = FALSE
    /\ no_newton_convergence_flag' = FALSE
    /\ IF time_range_arg[1] < 1
       THEN /\ recorded' = Record(<< >>, 0, q0, TRUE, TRUE)
            /\ time_index' = 1
       ELSE /\ recorded' = << >>
            /\ time_index' = 0
    /\ accepted' = <<[t |-> 0, u |-> q0]>>
    /\ calls' = Called({"solve"})
    /\ pc' = "top"
    /\ UNCHANGED <<dt, res_abs, n_iter, q_old, dq_old, t_old, history,
                   rollbacks, last_step>>
    /\ NewmarkFrame

\* lines 90-100: the step width of the next step
StepWidth ==
    IF t + delta_t >= time_range_arg[time_index + 1]
    THEN LET d == time_range_arg[time_index + 1] - t
         IN IF d < 1 THEN 1 ELSE d
    ELSE IF no_newton_convergence_flag THEN delta_t \div 2 ELSE delta_t

\* lines 89-118: the step width, the old variables, the prediction and the
\* first evaluation
NewmarkStep ==
    /\ pc = "top"
    /\ time_index < Len(time_range_arg)
    /\ dt' = StepWidth
    /\ IF t + delta_t >= time_range_arg[time_index + 1]
       THEN /\ write_flag' = TRUE
            /\ time_index' = time_index + 1
            /\ UNCHANGED no_newton_convergence_flag
       ELSE /\ no_newton_convergence_flag' = FALSE
            /\ UNCHANGED <<write_flag, time_index>>
    /\ t_old' = t /\ q_old' = q /\ dq_old' = dq
    /\ t' = t + dt'
    /\ LET p == newmark_predict(State, dt') IN
         /\ q' = p.q /\ dq' = p.dq /\ ddq' = p.ddq
    /\ recorded' = InPlace(recorded, q')
    /\ \E rn \in NewmarkResNorms : res_abs' = rn
    /\ n_iter' = 0
    /\ pc' = "newton"
    /\ UNCHANGED <<history, calls, accepted, rollbacks, last_step>>
    /\ NewmarkFrame

\* line 89 false: the function returns
NewmarkReturn ==
    /\ pc = "top"
    /\ ~(time_index < Len(time_range_arg))
    /\ pc' = "done"
    /\ UNCHANGED <<dt, working, res_abs, n_iter, time_index, q_old, dq_old,
                   t_old, history, calls, accepted, rollbacks, last_step,
                   write_flag, no_newton_convergence_flag, recorded>>
    /\ NewmarkFrame

\* line 119 false: the Newton loop ends with a converged step
NewmarkConverged ==
    /\ pc = "newton"
    /\ ~(res_abs > 1)
    /\ accepted' = Append(accepted, [t |-> t, u |-> q])
    /\ last_step' = "accepted"
    /\ pc' = "write"
    /\ UNCHANGED <<dt, working, res_abs, n_iter, time_index, q_old, dq_old,
                   t_old, history, calls, rollbacks, write_flag,
                   no_newton_convergence_flag, recorded>>
    /\ NewmarkFrame

\* lines 120-130: one Newton correction and the evaluation after it
NewmarkCorrection(k, rn) ==
    /\ pc = "newton"
    /\ res_abs > 1
    /\ calls' = Called({"solve"})
    /\ res_abs' = rn
    /\ n_iter' = n_iter + 1
    /\ UNCHANGED <<dt, time_index, q_old, dq_old, t_old, history, accepted,
                   write_flag>>
    /\ NewmarkFrame

\* line 134 false: the Newton loop goes on to its test
NewmarkContinue ==
    \E k \in NewmarkDeltaQ, rn \in NewmarkResNorms :
      /\ NewmarkCorrection(k, rn)
      /\ ~(n_iter + 1 > n_iter_max)
      /\ LET c == newmark_correct(State, dt, k) IN
           /\ q' = c.q /\ dq' = c.dq /\ ddq' = c.ddq
           /\ recorded' = InPlace(recorded, c.q)
      /\ pc' = "newton"
      /\ UNCHANGED <<t, rollbacks, last_step, no_newton_convergence_flag>>

\* lines 134-139: the Newton loop is left without convergence; t, q and dq
\* are set back, ddq is not
NewmarkBreak ==
    \E k \in NewmarkDeltaQ, rn \in NewmarkResNorms :
      /\ NewmarkCorrection(k, rn)
      /\ n_iter + 1 > n_iter_max
      /\ rollbacks < MaxFailures
      /\ LET c == newmark_correct(State, dt, k) IN
           /\ ddq' = c.ddq
           /\ recorded' = Rebound(InPlace(recorded, c.q))
      /\ t' = t_old
      /\ q' = q_old
      /\ dq' = dq_old
      /\ no_newton_convergence_flag' = TRUE
      /\ rollbacks' = rollbacks + 1
      /\ last_step' = "rollback"
      /\ pc' = "write"

\* lines 144-151 with write_flag set: q is handed to the mechanical system
\* as it is, or a copy of it is appended to q_global
NewmarkWrite ==
    /\ pc = "write"
    /\ write_flag
    /\ IF has_mechanical_system
       THEN /\ history' = write_timestep(history, t, 0, q)
            /\ recorded' = Record(recorded, t, q, TRUE,
                                  last_step = "accepted")
       ELSE /\ history' = history
            /\ recorded' = Record(recorded, t, q, FALSE,
                                  last_step = "accepted")
    /\ write_flag' = FALSE
    /\ pc' = "top"
    /\ UNCHANGED <<dt, working, res_abs, n_iter, time_index, q_old, dq_old,
                   t_old, calls, accepted, rollbacks, last_step,
                   no_newton_convergence_flag>>
    /\ NewmarkFrame

\* line 144 false
NewmarkNoWrite ==
    /\ pc = "write"
    /\ ~write_flag
    /\ pc' = "top"
    /\ UNCHANGED <<dt, working, res_abs, n_iter, time_index, q_old, dq_old,
                   t_old, history, calls, accepted, rollbacks, last_step,
                   write_flag, no_newton_convergence_flag, recorded>>
    /\ NewmarkFrame

NextNewmark ==
    \/ NewmarkSetup
    \/ NewmarkStep
    \/ NewmarkReturn
    \/ NewmarkConverged
    \/ NewmarkContinue
    \/ NewmarkBreak
    \/ NewmarkWrite
    \/ NewmarkNoWrite

SpecNewmark == InitNewmark /\ [][NextNewmark]_vars

\* -------------------- the nonlinear schemes in exact rational arithmetic
\* State vectors, dt and the scheme parameters are rationals <<n, d>>; the
\* operators are those of the schemes at any rho_inf.  One time step is
\* taken from a state with any acceleration.

RSum3(x, y, z) == RAdd(RAdd(x, y), z)
RNeg(x) == RSub(R(0), x)
RAbs(x) == <<Abs(x[1]), x[2]>>

\* alpha*x + (1 - alpha)*y
Blend(alpha, x, y) == RAdd(RMul(alpha, x), RMul(RSub(R(1), alpha), y))

\* predict of the two nonlinear schemes with the parameters p and the step
\* width h
exact_predict(p, h, s) ==
    IF use_v
    THEN [q   |-> RAdd(s.q,
                    RSum3(RMul(RDiv(RMul(h, RSub(p.alpha_m, p.gamma)),
                                    p.alpha_m), s.dq),
                          RMul(RDiv(RMul(h, p.gamma), p.alpha_m), s.v),
                          RMul(RDiv(RMul(RMul(p.alpha_f, RMul(h, h)),
                                         RMul(p.gamma,
                                              RSub(R(1), p.gamma))),
                                    p.alpha_m), s.ddq))),
          dq  |-> RSum3(s.dq,
                        RDiv(RSub(s.v, s.dq), p.alpha_m),
                        RMul(RDiv(RMul(RMul(p.alpha_f, h),
                                       RSub(R(1), p.gamma)),
                                  p.alpha_m), s.ddq)),
          v   |-> RAdd(s.v, RMul(RMul(h, RSub(R(1), p.gamma)), s.ddq)),
          ddq |-> R(0)]
    ELSE [q   |-> RSum3(s.q,
                        RMul(h, s.dq),
                        RMul(RMul(RMul(h, h), RSub(Half, p.beta)), s.ddq)),
          dq  |-> RAdd(s.dq, RMul(RMul(h, RSub(R(1), p.gamma)), s.ddq)),
          v   |-> s.v,
          ddq |-> R(0)]

\* mutant of exact_correct: v is corrected like dq
exact_correct_v_as_dq(p, h, s, delta_q) ==
    IF use_v
    THEN [q   |-> RAdd(s.q, delta_q),
          dq  |-> RAdd(s.dq, RDiv(delta_q, RMul(p.gamma, h))),
          v   |-> RAdd(s.v, RDiv(delta_q, RMul(p.gamma, h))),
          ddq |-> RAdd(s.ddq,
                       RMul(RDiv(p.alpha_m,
                                 RMul(p.alpha_f,
                                      RMul(RMul(p.gamma, p.gamma),
                                           RMul(h, h)))),
                            delta_q))]
    ELSE [q   |-> RAdd(s.q, delta_q),
          dq  |-> RAdd(s.dq,
                       RMul(RDiv(p.gamma, RMul(p.beta, h)), delta_q)),
          v   |-> s.v,
          ddq |-> RAdd(s.ddq, RDiv(delta_q, RMul(p.beta, RMul(h, h))))]

\* correct of the two nonlinear schemes
exact_correct(p, h, s, delta_q) ==
    IF use_v
    THEN [q   |-> RAdd(s.q, delta_q),
          dq  |-> RAdd(s.dq, RDiv(delta_q, RMul(p.gamma, h))),
          v   |-> RAdd(s.v,
                       RMul(RDiv(p.alpha_m,
                                 RMul(p.alpha_f, RMul(p.gamma, h))),
                            delta_q)),
          ddq |-> RAdd(s.ddq,
                       RMul(RDiv(p.alpha_m,
                                 RMul(p.alpha_f,
                                      RMul(RMul(p.gamma, p.gamma),
                                           RMul(h, h)))),
                            delta_q))]
    ELSE [q   |-> RAdd(s.q, delta_q),
          dq  |-> RAdd(s.dq,
                       RMul(RDiv(p.gamma, RMul(p.beta, h)), delta_q)),
          v   |-> s.v,
          ddq |-> RAdd(s.ddq, RDiv(delta_q, RMul(p.beta, RMul(h, h))))]

\* res of newton_raphson of the two nonlinear schemes for the linear
\* system sys at the state s of the step that started from the state o
exact_residual(p, sys, s, o) ==
    LET wm == IF use_v THEN p.alpha_m ELSE RSub(R(1), p.alpha_m)
        wf == IF use_v THEN p.alpha_f ELSE RSub(R(1), p.alpha_f)
        ddq_m == Blend(wm, s.ddq, o.ddq)
        q_f   == Blend(wf, s.q, o.q)
        dq_f  == IF use_v THEN Blend(wf, s.v, o.v)
                          ELSE Blend(wf, s.dq, o.dq)
        undamped == RSub(RSub(R(sys.F), RMul(R(sys.M), ddq_m)),
                         RMul(R(sys.K), q_f))
    IN IF sys.D = None
       THEN undamped
       ELSE RSub(undamped, RMul(R(sys.D), dq_f))

\* Jac of newton_raphson of the two nonlinear schemes
exact_Jac(p, h, sys) ==
    LET cM == IF use_v
              THEN RDiv(RMul(p.alpha_m, p.alpha_m),
                        RMul(p.alpha_f,
                             RMul(RMul(p.gamma, p.gamma), RMul(h, h))))
              ELSE RDiv(RSub(R(1), p.alpha_m), RMul(p.beta, RMul(h, h)))
        cD == IF use_v
              THEN RDiv(p.alpha_m, RMul(p.gamma, h))
              ELSE RDiv(RMul(RSub(R(1), p.alpha_f), p.gamma),
                        RMul(p.beta, h))
        cK == IF use_v THEN p.alpha_f ELSE RSub(R(1), p.alpha_f)
        undamped == RAdd(RMul(cM, R(sys.M)), RMul(cK, R(sys.K)))
    IN IF sys.D = None
       THEN RNeg(undamped)
       ELSE RNeg(RAdd(undamped, RMul(cD, R(sys.D))))

ExactRhoChoices == {R(0), Rat(1, 3), Half, R(1)}

ExactSystems ==
    {[kind |-> "linear", M |-> m, K |-> k, F |-> f, D |-> d] :
        m \in {1, 2}, k \in {0, 1}, f \in {0, 2}, d \in {None, 1}}

InitExact ==
    /\ dt \in {1, 2}
    /\ dt_output = 1
    /\ t_end = 1
    /\ rtol = 0 /\ atol = 0 /\ n_iter_max = 1
    /\ conv_abort = FALSE /\ write_iter = FALSE /\ track_niter = FALSE
    /\ use_v \in BOOLEAN
    /\ has_factorize = FALSE
    /\ q0 \in {0, 1} /\ dq0 \in {0, 1}
    /\ NoStatics
    /\ solver = "NonlinearDynamics"
    /\ signature = KeywordOptions
    /\ rho_inf \in ExactRhoChoices
    /\ given = ValidOptions
    /\ system \in ExactSystems
    /\ t = 0
    /\ q = R(q0) /\ dq = R(dq0)
    /\ v = (IF use_v THEN R(dq0) ELSE R(0))
    /\ ddq \in {R(0), R(1)}
    /\ f_ext = 0 /\ abs_f_ext = 0
    /\ res_abs = R(0) /\ n_iter = 0 /\ time_index = 0
    /\ q_old = R(0) /\ dq_old = R(0) /\ v_old = R(0) /\ ddq_old = R(0)
    /\ f_ext_old = 0 /\ t_old = 0
    /\ history = << >>
    /\ iteration_info = << >>
    /\ lin_A = R(0)
    /\ calls = [NoCalls EXCEPT !.set_parameters = 1]
    /\ accepted = << >>
    /\ seen_f_ext = {}
    /\ rollbacks = 0
    /\ last_step = "none"
    /\ aborted = FALSE
    /\ params = set_parameters(rho_inf)
    /\ solves = 1
    /\ pc = "predict"
    /\ NoConstraint
    /\ NoNewmark

ExactFrame ==
    UNCHANGED <<options, session, params, statics, f_ext, abs_f_ext,
                f_ext_old, history, iteration_info, accepted, seen_f_ext,
                rollbacks, aborted>>

\* lines 496-513: the old variables, predict and the first newton_raphson
ExactPredict ==
    /\ pc = "predict"
    /\ q_old' = q /\ dq_old' = dq /\ v_old' = v /\ ddq_old' = ddq
    /\ t_old' = t
    /\ t' = t + dt
    /\ LET s == exact_predict(params, R(dt), State) IN
         /\ q' = s.q /\ dq' = s.dq /\ v' = s.v /\ ddq' = s.ddq
         /\ res_abs' = RAbs(exact_residual(params, system, s, State))
    /\ lin_A' = exact_Jac(params, R(dt), system)
    /\ n_iter' = 0
    /\ calls' = Called({"predict", "newton_raphson"})
    /\ pc' = "newton"
    /\ UNCHANGED <<time_index, last_step>>
    /\ ExactFrame

\* lines 516-526: set_A(Jac), delta_q = -solve(res), correct and the next
\* newton_raphson; the step is followed for n_iter_max + 1 corrections,
\* what line 541 does after them is part of Correction and its callers
ExactCorrection ==
    /\ pc = "newton"
    /\ res_abs # R(0)
    /\ n_iter <= n_iter_max
    /\ LET res == exact_residual(params, system, State, Saved)
           delta_q == RNeg(RDiv(res, lin_A))
           s == exact_correct(params, R(dt), State, delta_q)
       IN /\ q' = s.q /\ dq' = s.dq /\ v' = s.v /\ ddq' = s.ddq
          /\ res_abs' = RAbs(exact_residual(params, system, s, Saved))
    /\ lin_A' = exact_Jac(params, R(dt), system)
    /\ n_iter' = n_iter + 1
    /\ calls' = Called({"set_A", "solve", "correct", "newton_raphson"})
    /\ UNCHANGED <<pc, t, time_index, saved, last_step>>
    /\ ExactFrame

\* line 514 false: the step is accepted
ExactConverged ==
    /\ pc = "newton"
    /\ res_abs = R(0)
    /\ time_index' = time_index + 1
    /\ last_step' = "accepted"
    /\ pc' = "top"
    /\ UNCHANGED <<working, res_abs, n_iter, saved, lin_A, calls>>
    /\ ExactFrame

NextExact ==
    \/ ExactPredict
    \/ ExactCorrection
    \/ ExactConverged

SpecExact == InitExact /\ [][NextExact]_vars

\* ================================================================ claims
MaxOfSet(S) == IF S = {} THEN 0 ELSE CHOOSE x \in S : \A y \in S : y <= x

Entries(h) == {[t |-> h[i].t, u |-> h[i].u] : i \in DOMAIN h}

AcceptedStates == {accepted[i] : i \in DOMAIN accepted}

\* the first accepted state whose time has reached the grid point g
FirstAccepted(g) ==
    accepted[CHOOSE j \in DOMAIN accepted :
               /\ accepted[j].t + eps >= g
               /\ \A i \in 1..(j - 1) : ~(accepted[i].t + eps >= g)]

JustAccepted == pc = "top" /\ last_step = "accepted"
JustRolledBack == pc = "top" /\ last_step = "rollback"

\* C1 as claimed: a step is accepted only if its last residual norm is at
\* most rtol*S + atol, S the largest external-force norm seen at the
\* predictor evaluations of this solve.
C1_AcceptedWithinSeenScale ==
    JustAccepted => res_abs <= rtol * MaxOfSet(seen_f_ext) + atol

\* C1 amended: a step is accepted only if its last residual norm is at most
\* rtol*S + atol, S the larger of atol and the largest external-force norm
\* seen at the predictor evaluations of this solve.
C1_AcceptedWithinSeededScale ==
    JustAccepted =>
        res_abs <= rtol * Max(atol, MaxOfSet(seen_f_ext)) + atol

\* C1 witness: a step accepted after a correction with the residual just at
\* the tolerance that an earlier step's external force sets
C1_Witness ==
    /\ JustAccepted
    /\ n_iter >= 1
    /\ f_ext < MaxOfSet(seen_f_ext)
    /\ atol < MaxOfSet(seen_f_ext)
    /\ res_abs = rtol * MaxOfSet(seen_f_ext) + atol

\* C2: with conv_abort set, the correction that exceeds the iteration cap
\* ends the solve at once: the solve is done, nothing is recorded for the
\* aborted step, afterwards no hook or linear solver call is made and
\* nothing is recorded, and the history holds accepted states only.
C2_AbortEndsSolve ==
    /\ [](aborted => pc = "done" /\ Entries(history) \subseteq AcceptedStates)
    /\ [][/\ (conv_abort /\ n_iter' # n_iter /\ CapExceeded(n_iter'))
               => aborted'
          /\ (aborted' /\ ~write_iter) => history' = history
          /\ aborted => (calls' = calls /\ history' = history)]_vars

\* C2 witness: a solve aborted after accepted steps were recorded
C2_Witness ==
    /\ aborted
    /\ pc = "done"
    /\ Len(history) >= 2
    /\ Len(accepted) >= 3

\* C3 as claimed: after a rollback the working state (q, dq, v, ddq, t) is
\* the state saved before the predict of the failed step.
C3_RollbackRestoresState ==
    JustRolledBack =>
        <<q, dq, v, ddq, t>> = <<q_old, dq_old, v_old, ddq_old, t_old>>

\* C4 as claimed: no time step performs more than n_iter_max corrections.
C4_AtMostNIterMaxCorrections == n_iter <= n_iter_max

\* C5: with write_iter disabled every recorded entry is the (t, q) of an
\* accepted state, also when it is recorded right after a rollback.
C5_OnlyAcceptedRecorded ==
    ~write_iter => Entries(history) \subseteq AcceptedStates

\* C5 witness: a state recorded a second time, right after a rollback
C5_Witness ==
    /\ ~write_iter
    /\ last_step = "rollback"
    /\ pc = "predict"
    /\ Len(history) >= 2
    /\ history[Len(history)].t = history[Len(history) - 1].t
    /\ history[Len(history)].t = t

\* C6: with write_iter disabled the recorded times are non-decreasing.
C6_TimesNonDecreasing ==
    ~write_iter =>
        \A i, j \in DOMAIN history : i < j => history[i].t <= history[j].t

\* C6 witness: a solve with rollbacks that recorded every grid point
C6_Witness ==
    /\ ~write_iter
    /\ pc = "done"
    /\ ~aborted
    /\ rollbacks >= 1
    /\ Len(history) = Len(time_range)
    /\ Len(history) >= 3

\* C7 as claimed: one entry per grid point, the k-th entry being the first
\* accepted state whose time has reached the k-th grid point.
C7_EntryAtFirstAcceptedTime ==
    ~write_iter =>
        /\ Len(history) <= Len(time_range)
        /\ (pc = "done" /\ ~aborted) => Len(history) = Len(time_range)
        /\ \A k \in DOMAIN history :
             [t |-> history[k].t, u |-> history[k].u]
                 = FirstAccepted(time_range[k])

\* C8 as claimed: a statics solve that ends without abort returns exactly
\* no_of_load_steps columns, one per load step k = 1..no_of_load_steps in
\* load order, and with save and without write_iter its history holds the
\* initial zero state plus one entry per step; an aborted solve returns
\* strictly fewer columns.
C8_OneColumnPerLoadStep ==
    (pc = "done") =>
        IF aborted
        THEN Len(u_output) < no_of_load_steps
        ELSE /\ Len(u_output) = no_of_load_steps
             /\ (save /\ ~write_iter) =>
                    /\ Len(history) = no_of_load_steps + 1
                    /\ \A i \in DOMAIN history : history[i].t = i - 1

\* C9 as claimed: with conv_abort unset, after a load step whose Newton
\* loop made n_max_iter iterations without meeting the convergence
\* criterion the displacement
\* is the last accepted one, u_output got no column for the step and the
\* history no entry at its load factor.
C9_UnconvergedStepRolledBack ==
    (/\ ~conv_abort
     /\ pc = "load"
     /\ last_step = "unconverged"
     /\ n_iter = n_max_iter
     /\ n_max_iter >= 1) =>
        /\ u = accepted[1].u
        /\ Len(u_output) < load_step
        /\ \A i \in DOMAIN history : history[i].t # load_step

\* C10: in the linear solve K_eff is computed once and is the matrix
\* installed last before the first step, factorize is called once if the
\* adapter has it and never otherwise, a time step makes no set_A call, no
\* Newton iteration and no correct call, and the solve calls made since the
\* setup number the accepted steps.
C10_OneSolvePerStep ==
    /\ (pc \in {"top", "step", "clear", "done"}) =>
         /\ calls.K_eff = 1
         /\ lin_A = "K_eff"
         /\ calls.factorize = (IF has_factorize THEN 1 ELSE 0)
         /\ calls.newton_raphson = 0
         /\ calls.correct = 0
         /\ calls.solve - 1 = Len(accepted) - 1
    /\ [][/\ pc # "setup" => (calls'.set_A = calls.set_A /\ lin_A' = lin_A)
          /\ pc = "step" => calls'.solve = calls.solve + 1
          /\ pc \notin {"setup", "step"} => calls'.solve = calls.solve]_vars

\* C10 witness: a finished linear solve of several steps on an adapter
\* that has factorize
C10_Witness ==
    /\ pc = "done"
    /\ has_factorize
    /\ lin_A = "K_eff"
    /\ calls.factorize = 1
    /\ Len(accepted) >= 4
    /\ calls.solve = Len(accepted)

\* the entries that the running solve has written so far, counted from its
\* own variables
OwnWrites ==
    CASE solver \in {"NonlinearDynamics", "LinearDynamics"} -> time_index
      [] solver = "NonlinearStatics" ->
             1 + (IF save THEN Len(u_output) ELSE 0)
      [] solver = "LinearStatics" -> 2

\* C11: every solve calls clear_timesteps exactly once, before its first
\* write_timestep: no entry is written before the call, and from then on
\* the history holds the entries of the running solve only, the initial
\* state first - also in a second solve on the same mechanical system.
C11_HistoryOfThisSolveOnly ==
    /\ [](pc = "setup" => calls.clear_timesteps = 0)
    /\ [](pc # "setup" =>
            /\ calls.clear_timesteps = 1
            /\ ~write_iter => Len(history) = OwnWrites
            /\ history # << >> =>
                 history[1].t = T0 /\ history[1].u = q0)
    /\ [][history' # history => calls'.clear_timesteps = 1]_vars

\* C11 witness: a second solve on the system has ended and recorded
\* several entries
C11_Witness ==
    /\ solves = 2
    /\ pc = "done"
    /\ calls.clear_timesteps = 1
    /\ Len(history) >= 2

\* the constructor options miss dt or carry initial conditions of a wrong
\* length
Misconfigured ==
    \/ ~given.dt
    \/ given.q0 \notin {Absent, no_of_dofs}
    \/ given.dq0 \notin {Absent, no_of_dofs}

\* C12: a constructor call without dt, or with q0 or dq0 of a length other
\* than no_of_dofs, ends in an error; no attribute got a value instead, and
\* afterwards nothing happens: no solve step, no history write.
C12_MisconfiguredFailsAtConstruction ==
    /\ [][(pc = "new" /\ Misconfigured) => pc' = "construct_error"]_vars
    /\ [](Misconfigured => pc \in {"new", "construct_error"})
    /\ [](pc = "construct_error" =>
            /\ dt = 0 /\ q0 = 0 /\ dq0 = 0
            /\ history = << >>
            /\ calls = NoCalls)
    /\ [][pc # "construct_error"]_vars

\* C12 witness: the constructor has raised for initial conditions of a
\* wrong length although dt was given
C12_Witness ==
    /\ pc = "construct_error"
    /\ given.dt
    /\ given.q0 = no_of_dofs
    /\ given.dq0 = no_of_dofs + 1

\* C14 as claimed: a dynamics solve constructed with valid options has its
\* scheme parameters computed by one set_parameters call before the first
\* predict, and no step changes them.
C14_ParametersSetOnce ==
    /\ [](pc \notin {"new", "construct_error", "setup"} =>
            params # NoParameters /\ calls.set_parameters = 1)
    /\ [][params # NoParameters => params' = params]_vars

\* C13 as claimed: with track_niter set, when solve has returned the
\* iteration_info holds one record for every accepted step and one for the
\* aborting step, and no other.
C13_OneRecordPerStep ==
    (track_niter /\ pc = "done") =>
        Len(iteration_info) =
            (Len(accepted) - 1) + (IF aborted THEN 1 ELSE 0)

\* the recorded time of the entry a is before that of the entry b
Before(a, b) == a.t < b.t \/ (a.t = b.t /\ a.it < b.it)

\* C20 as claimed: with write_iter set, an entry written by a Newton
\* iteration carries a time after the last accepted time and before the
\* time the step leads to, and the recorded times increase strictly in the
\* order the entries are written.
C20_DiagnosticTimesInBetween ==
    write_iter =>
        /\ \A i \in DOMAIN history :
             history[i].it > 0 =>
                 \E a \in AcceptedStates :
                     a.t < history[i].t /\ history[i].t < a.t + dt
        /\ \A i, j \in DOMAIN history :
             i < j => Before(history[i], history[j])

\* a linear system without external force, started from rest
ZeroProblem ==
    /\ system.kind = "linear"
    /\ system.F = 0
    /\ q0 = 0 /\ dq0 = 0

\* C15: on a linear system without external force and with zero initial
\* conditions both schemes keep q, dq, v and ddq at zero: every residual is
\* zero, no step makes a Newton correction, is rolled back or aborts, and
\* every recorded state is zero.
C15_ZeroSolutionKept ==
    ZeroProblem =>
        /\ q = 0 /\ dq = 0 /\ v = 0 /\ ddq = 0
        /\ res_abs = 0
        /\ n_iter = 0
        /\ calls.correct = 0
        /\ rollbacks = 0 /\ ~aborted
        /\ \A i \in DOMAIN history : history[i].u = 0
        /\ \A i \in DOMAIN accepted : accepted[i].u = 0

\* C15 witness: a finished solve of the zero problem with several accepted
\* steps
C15_Witness ==
    /\ ZeroProblem
    /\ system.K > 0
    /\ pc = "done"
    /\ calls.newton_raphson >= 2
    /\ Len(accepted) >= 3
    /\ Len(history) >= 3

\* C16 as claimed, where the force exceeds the tolerance and an iteration
\* is permitted: the statics solve of a linear problem K*u = f_ext in one
\* load step ends after exactly one Newton iteration and returns the one
\* column u = f_ext/K.
C16_LinearProblemOneIteration ==
    (/\ system.kind = "linear"
     /\ no_of_load_steps = 1
     /\ Abs(system.F) > rtol * Abs(system.F) + atol
     /\ n_max_iter >= 1
     /\ pc = "done") =>
        /\ ~aborted
        /\ n_iter = 1
        /\ u_output = <<system.F \div system.K>>

\* the generalized-alpha set_parameters has run at rho_inf = 1
UndampedParameters ==
    /\ pc = "parameters"
    /\ ~use_v
    /\ rho_inf = R(1)

\* C17 as claimed: at rho_inf = 1 the generalized-alpha set_parameters
\* yields alpha_m = alpha_f = 0, beta = 1/4 and gamma = 1/2.
C17_UndampedAlphasZero ==
    UndampedParameters =>
        /\ params.alpha_m = R(0)
        /\ params.alpha_f = R(0)
        /\ params.beta = Quarter
        /\ params.gamma = Half

\* C17 amended: at rho_inf = 1 the generalized-alpha set_parameters yields
\* alpha_m = alpha_f = 1/2, beta = 1/4 and gamma = 1/2.
C17_UndampedAlphasHalf ==
    UndampedParameters =>
        /\ params.alpha_m = Half
        /\ params.alpha_f = Half
        /\ params.beta = Quarter
        /\ params.gamma = Half

C17_Witness ==
    /\ UndampedParameters
    /\ calls.set_parameters = 1
    /\ params.beta = Quarter

\* a method was called on one of the two base classes
BaseCalled ==
    /\ constraint.kind \in {"NonholonomicConstraintBase",
                            "HolonomicConstraintBase"}
    /\ call.method # "none"

\* C18: a call of B, b or a on NonholonomicConstraintBase, or of g, B, b or
\* a on HolonomicConstraintBase, raises NotImplementedError for every
\* (X, u, t) and returns no value.
C18_BaseMethodsRaise ==
    BaseCalled =>
        /\ returned.raised = "NotImplementedError"
        /\ returned.value = << >>

C18_Witness ==
    /\ BaseCalled
    /\ constraint = HolonomicConstraintBase
    /\ call.method = "a"
    /\ call.t = MaxTime
    /\ returned.raised = "NotImplementedError"

\* a method was called on a DirichletConstraint
DirichletCalled(method) ==
    /\ constraint.kind = "DirichletConstraint"
    /\ call.method = method

\* C19: for a DirichletConstraint of U, dU, ddU and every (X, u, t):
\* g = u - U(t), B = [1], B*dU(t) + b = 0 and
\* B*ddU(t) + a(X, u, dU(t), t) = 0, with the dU and ddU supplied.
C19_DirichletTerms ==
    LET U(x)   == Eval(constraint.U, x)
        dU(x)  == Eval(constraint.dU, x)
        ddU(x) == Eval(constraint.ddU, x)
        B      == Dirichlet_B(constraint, call.X, call.u, call.t)
    IN /\ DirichletCalled("g") =>
            returned = Return(<<call.u - U(call.t)>>)
       /\ DirichletCalled("B") => returned = Return(<<1>>)
       /\ DirichletCalled("b") =>
            /\ returned.raised = "none"
            /\ B[1] * dU(call.t) + returned.value[1] = 0
       /\ (DirichletCalled("a") /\ call.du = dU(call.t)) =>
            /\ returned.raised = "none"
            /\ B[1] * ddU(call.t) + returned.value[1] = 0

\* constraint_2 of the tests at t = 2: b = -6 although U'(2) = 4
C19_Witness ==
    /\ DirichletCalled("b")
    /\ constraint = DirichletConstraint(TSquared, ThreeT, Two)
    /\ call.t = 2
    /\ returned = Return(<<-6>>)

\* C21 as claimed: after every Newton iteration of the statics solve, the
\* residual at hand (used by the convergence test and by the next
\* correction) is the one evaluated at the current displacement, whatever
\* smplfd_nwtn_itr is.
C21_ResidualOfCurrentDisplacement ==
    (solver = "NonlinearStatics" /\ n_iter >= 1) => ~stale

\* C22 as claimed, for the linear schemes: on a mechanical system without
\* damping operator (D_constr is None) the solve proceeds without error; it
\* forms the effective stiffness and enters its time step loop.
C22_UndampedProceeds ==
    (/\ solver = "LinearDynamics"
     /\ system.kind = "linear"
     /\ system.D = None
     /\ calls.K_eff >= 1) =>
        /\ pc # "raised"
        /\ lin_A = "K_eff"

\* C23 as claimed: when the Newton loop of a step exceeds n_iter_max, t, q
\* and dq are set back to their values before the step, and the step
\* attempted next has a step width of at most delta_t/2, wherever the next
\* output time lies.
C23_RetryWithHalvedStep ==
    /\ [][(pc = "newton" /\ no_newton_convergence_flag'
            /\ ~no_newton_convergence_flag) =>
             (t' = t_old /\ q' = q_old /\ dq' = dq_old)]_vars
    /\ [][(pc = "top" /\ pc' = "newton" /\ last_step = "rollback") =>
             2 * dt' <= delta_t]_vars

\* C24: for a linear system with constant M, D, K and both nonlinear
\* schemes, the state corrected by delta_q = -Jac^-1 * res has the residual
\* zero, so that no time step takes more than one Newton correction.
C24_OneCorrectionZeroesResidual ==
    /\ n_iter <= 1
    /\ (pc = "newton" /\ n_iter = 1) => res_abs = R(0)

C24_Witness ==
    /\ pc = "newton"
    /\ n_iter = 1
    /\ use_v
    /\ system.D = 1
    /\ rho_inf = Rat(1, 3)
    /\ q # q_old
    /\ res_abs = R(0)

\* C25 as claimed, for the dynamics solve: a step is aborted or rolled back
\* only if its latest residual norm is above rtol*abs_f_ext + atol; a step
\* whose residual meets the criterion when the cap check fires is accepted.
C25_RejectedOnlyIfUnconverged ==
    ((aborted /\ pc = "done") \/ JustRolledBack) => res_abs > Tolerance

\* C28 as claimed: when NonlinearDynamicsSolver.solve has returned,
\* linsolver.clear() was called exactly once, also when the return is the
\* one of a convergence abort.
C28_ReturnedSolveHasCleared == pc = "done" => calls.clear = 1

\* C29 as claimed, for NewmarkIntegrator.integrate_nonlinear_system: a
\* vector that was recorded (appended to q_global or handed to
\* write_timestep) is not changed by any later step of the solver.
C29_RecordedVectorsNeverChange ==
    [][\A i \in DOMAIN recorded :
         i \in DOMAIN recorded' => recorded'[i].u = recorded[i].u]_vars

\* C30 as claimed: the i-th recorded output of
\* NewmarkIntegrator.integrate_nonlinear_system is a state whose time has
\* reached the i-th entry of time_range, also when the step that lands on
\* that entry was rolled back, and a returned run has recorded one output
\* per entry.
C30_OutputsReachTheirTime ==
    /\ \A i \in DOMAIN recorded : recorded[i].t >= time_range_arg[i]
    /\ (solver = "NewmarkIntegrator" /\ pc = "done")
         => Len(recorded) = Len(time_range_arg)

\* C26: with conv_abort set, every NonlinearDynamicsSolver.solve that was
\* called returns, whatever residuals the system gives, and no step makes
\* more than n_iter_max + 1 Newton corrections.
C26_AbortingSolveTerminates ==
    conv_abort => /\ (pc # "setup") ~> (pc = "done")
                  /\ [](n_iter <= n_iter_max + 1)

\* C26 witness: a solve with conv_abort set on an arbitrary system that
\* accepted a step after a Newton correction and was then ended by an abort
C26_Witness ==
    /\ conv_abort
    /\ system.kind = "any"
    /\ pc = "done"
    /\ aborted
    /\ Len(accepted) >= 2
    /\ n_iter = n_iter_max + 1

\* C27 as claimed: with conv_abort not set, every
\* NonlinearDynamicsSolver.solve that was called eventually returns, for
\* every mechanical system.
C27_RetryingSolveReturns ==
    ~conv_abort => ((pc # "setup") ~> (pc = "done"))

====
